---- MODULE Spec2Model ----
(***************************************************************************)
(* Account backend over an ordered transactional key-value store           *)
(* (src/oio/account/backend_fdb.py, class AccountBackendFdb).              *)
(*                                                                         *)
(* Strings are sequences of character codes, so that the byte order of    *)
(* keys, prefixes, markers and the '-' / '+segments' / '.shards_' parsing  *)
(* are computed as the code computes them.  Timestamps are the rank of a   *)
(* normalised timestamp in byte order: 0 is the b'0' sentinel, every       *)
(* Timestamp(t).normal is a positive rank.  Counters are machine words    *)
(* written by struct.pack('<i'), accumulated by the store's atomic add     *)
(* and read back by int.from_bytes(..., 'little') (unsigned).              *)
(***************************************************************************)
EXTENDS Integers, Sequences, FiniteSets, TLC

VARIABLES accts, acct, cts, ct, ctdel, bs, b, meta, clock, op, listing, task

vars == <<accts, acct, cts, ct, ctdel, bs, b, meta, clock, op, listing, task>>

-----------------------------------------------------------------------------
(* Bounds of the model *)

\* number of public operations in one behaviour (the wall clock read by
\* Timestamp() advances by one per operation)
MaxOps == 3
\* highest logical timestamp carried by an event
MaxTime == 2
\* highest object count carried by an event
MaxCount == 1
\* largest batch_size handed to the refresh operations
MaxBatch == 2
\* width of a stored counter in bits; the store's counters are 32-bit
\* words, the model keeps the same two's-complement arithmetic on fewer bits
WordBits == 16

-----------------------------------------------------------------------------
(* Strings *)

EmptyStr == <<>>
\* "A"
AccountA == <<65>>
\* ".shards_"
ShardsPrefix == <<46, 115, 104, 97, 114, 100, 115, 95>>
\* ".shards_A"
ShardsA == ShardsPrefix \o AccountA
\* "+segments"
SegmentsTag == <<43, 115, 101, 103, 109, 101, 110, 116, 115>>
\* "-"
Dash == 45
\* "/"
Slash == <<47>>
\* str(b'\xff') is the 7-character text  b'\xff'  (b, quote, backslash, x, f, f, quote)
MarkerSuffix == <<98, 39, 92, 120, 102, 102, 39>>

\* byte-wise order of two strings (s < t)
LexLess(s, t) ==
    \E i \in 1..(Len(s) + 1) :
        /\ \A j \in 1..(i - 1) : j <= Len(t) /\ s[j] = t[j]
        /\ \/ i = Len(s) + 1 /\ Len(t) >= i
           \/ i <= Len(s) /\ i <= Len(t) /\ s[i] < t[i]

LexLeq(s, t) == s = t \/ LexLess(s, t)

\* s.startswith(p)
StartsWith(s, p) ==
    /\ Len(p) <= Len(s)
    /\ \A j \in 1..Len(p) : s[j] = p[j]

\* sub in s
Contains(s, sub) ==
    \E k \in 0..(Len(s) - Len(sub)) :
        \A j \in 1..Len(sub) : s[k + j] = sub[j]

\* s.find(sub, start): 0-based index of the first occurrence of sub at or
\* after start, -1 if none
Find(s, sub, start) ==
    LET hits == {i \in start..(Len(s) - Len(sub)) :
                    \A j \in 1..Len(sub) : s[i + j] = sub[j]}
    IN  IF hits = {} THEN -1
        ELSE CHOOSE i \in hits : \A k \in hits : i <= k

\* s[:n]
Prefix(s, n) == SubSeq(s, 1, n)

RECURSIVE SortNames(_)
\* the names of a set in ascending byte order
SortNames(S) ==
    IF S = {} THEN <<>>
    ELSE LET m == CHOOSE x \in S : \A y \in S : LexLeq(x, y)
         IN  <<m>> \o SortNames(S \ {m})

-----------------------------------------------------------------------------
(* Counters *)

WordMod == 2 ^ WordBits

\* struct.pack('<i', x) raises struct.error outside the signed range
PackOK(x) == x >= -(WordMod \div 2) /\ x < WordMod \div 2

\* struct.pack('<i', x): the word holding x in two's complement
Pack(x) == x % WordMod

\* int.from_bytes(v, byteorder='little'): the word read as an unsigned number
FromBytes(v) == v

\* tr.add(key, param): little-endian addition, an absent key counts as zero
AtomicAdd(f, k, param) ==
    LET old == IF k \in DOMAIN f THEN f[k] ELSE 0
    IN  [x \in DOMAIN f \cup {k} |-> IF x = k THEN (old + param) % WordMod ELSE f[x]]

-----------------------------------------------------------------------------
(* The store: one partial function (or key set) per subspace *)

\* tr[key] = value
Put(f, k, v) == [x \in DOMAIN f \cup {k} |-> IF x = k THEN v ELSE f[x]]

\* clear the keys of f that satisfy Hit
Restrict(f, keep) == [x \in keep |-> f[x]]

EmptyFn == [x \in {} |-> 0]

EmptyStore ==
    [accts |-> {}, acct |-> EmptyFn, cts |-> {}, ct |-> EmptyFn,
     ctdel |-> EmptyFn, bs |-> {}, b |-> EmptyFn, meta |-> EmptyFn]

Store ==
    [accts |-> accts, acct |-> acct, cts |-> cts, ct |-> ct,
     ctdel |-> ctdel, bs |-> bs, b |-> b, meta |-> meta]

\* the field names of a container row, in key order
CtFields == <<"bucket", "bytes", "dtime", "mtime", "name", "objects">>

\* tr[ct_space.pack((cname, 'name'))].present()
RowPresent(S, a, c) == <<a, c, "name">> \in DOMAIN S.ct

\* the container names having at least one key in container:<account>
CtNames(S, a) == {k[2] : k \in {x \in DOMAIN S.ct : x[1] = a}}

-----------------------------------------------------------------------------
(* Mutation engine *)

\* a creation that writes the keys of the account whether it is listed
\* or not
_create_account_again(S, account_id, now) ==
    [st |-> [S EXCEPT
               !.accts = @ \cup {account_id},
               !.acct = Put(Put(Put(Put(@,
                           <<account_id, "id">>, account_id),
                           <<account_id, "objects">>, Pack(0)),
                           <<account_id, "bytes">>, Pack(0)),
                           <<account_id, "ctime">>, now)],
     status |-> account_id \notin S.accts]

\* _create_account: writes the existence flag, the id, zeroed counters and
\* the creation time, unless the account is already listed
_create_account(S, account_id, now) ==
    IF account_id \in S.accts
    THEN [st |-> S, status |-> FALSE]
    ELSE [st |-> [S EXCEPT
                    !.accts = @ \cup {account_id},
                    !.acct = Put(Put(Put(Put(@,
                                <<account_id, "id">>, account_id),
                                <<account_id, "objects">>, Pack(0)),
                                <<account_id, "bytes">>, Pack(0)),
                                <<account_id, "ctime">>, now)],
          status |-> TRUE]

\* a test that lets every event through
AdvancesAlways(new_mtime, new_dtime, mtime, dtime) == TRUE

\* the test that lets an event through: it must advance mtime or dtime
Advances(new_mtime, new_dtime, mtime, dtime) ==
    new_mtime > mtime \/ new_dtime > dtime

\* a test that takes the totals of an event whatever its mtime
MtimeAdvancedOrNot(mtime, old_mtime) == TRUE

\* the test of the update branch: the row is rewritten only when the
\* event moved the mtime forward
MtimeAdvanced(mtime, old_mtime) == mtime > old_mtime

\* a backend that keeps no account of the recorded deletion
StaleNever(new_mtime, deleted_time) == FALSE

\* the row is absent and the event is older than the recorded deletion
StaleAfterDelete(new_mtime, deleted_time) == new_mtime < deleted_time

\* a deletion that leaves the aggregates as they are
DeletionKeepsTotals(nb) == 0

\* the deltas of the deletion branch ("protect against minus zero")
DeletionDelta(nb) == IF nb # 0 THEN 0 - nb ELSE 0

\* an update that adds the reported total instead of the difference
UpdateAddsTotal(new_total, nb) == new_total

\* the deltas of the update branch
UpdateDelta(new_total, nb) == new_total - nb

\* the counter update of the bucket: atomic add when the key exists,
\* a plain zero otherwise
BucketCounter(f, k, inc) ==
    IF k \in DOMAIN f THEN AtomicAdd(f, k, Pack(inc)) ELSE Put(f, k, Pack(0))

\* the account counter update, skipped when the delta is zero
AccountCounter(f, k, inc) ==
    IF inc # 0 THEN AtomicAdd(f, k, Pack(inc)) ELSE f

\* a deletion of the root container that takes the bucket out of both
\* listings and leaves its row
RootDeletionKeepsRow(S, a, bucket_name) ==
    [S EXCEPT
       !.bs = {k \in @ : ~(k[1] = bucket_name)
                         /\ ~(Len(k) >= 2 /\ k[1] = a /\ k[2] = bucket_name)}]

\* the deletion of the root container: the keys under (account, bucket)
\* and under (bucket,) leave buckets:, the keys under (bucket,) leave bucket:
RootDeletion(S, a, bucket_name) ==
    [S EXCEPT
       !.bs = {k \in @ : ~(k[1] = bucket_name)
                         /\ ~(Len(k) >= 2 /\ k[1] = a /\ k[2] = bucket_name)},
       !.b = Restrict(@, {k \in DOMAIN @ : k[1] # bucket_name})]

\* the bucket part of _update_container (lines 691-772); S is the
\* transaction's view, committed the view of self.db
BucketBookkeeping(S, committed, ev, mtime, inc_objects0, inc_bytes0, deleted) ==
    LET a == ev.account
        c == ev.cname
        has_current == <<a, c, "bucket">> \in DOMAIN committed.ct
        bucket_name == IF ev.bucket = EmptyStr /\ has_current
                       THEN committed.ct[<<a, c, "bucket">>] ELSE ev.bucket
        inc_objects1 == IF has_current THEN inc_objects0 ELSE ev.objects
        inc_bytes == IF has_current THEN inc_bytes0 ELSE ev.bytes
        inc_objects == IF Contains(c, SegmentsTag) THEN 0 ELSE inc_objects1
        \* deleted: the back-reference goes (already cleared with the row)
        S1 == IF deleted
              THEN [S EXCEPT !.ct = Restrict(@, DOMAIN @ \ {<<a, c, "bucket">>})]
              ELSE S
        \* root container deleted: the bucket leaves both listings and its row goes
        S_root == RootDeletion(S1, a, bucket_name)
        b1 == BucketCounter(S1.b, <<bucket_name, "objects">>, inc_objects)
        b2 == BucketCounter(b1, <<bucket_name, "bytes">>, inc_bytes)
        b3 == IF mtime # 0 THEN Put(b2, <<bucket_name, "mtime">>, mtime) ELSE b2
        S2 == [S1 EXCEPT !.b = b3]
        b4 == IF ~StartsWith(a, ShardsPrefix)
              THEN Put(b3, <<bucket_name, "account">>, a) ELSE b3
        S3 == [S1 EXCEPT
                 !.b = b4,
                 !.ct = Put(@, <<a, c, "bucket">>, bucket_name),
                 !.bs = IF bucket_name = c
                        THEN @ \cup {<<a, bucket_name>>, <<bucket_name>>} ELSE @]
    IN  IF bucket_name = EmptyStr THEN [st |-> S, status |-> "updated"]
        ELSE IF deleted /\ bucket_name = c THEN [st |-> S_root, status |-> "none"]
        ELSE IF \/ <<bucket_name, "objects">> \in DOMAIN S1.b /\ ~PackOK(inc_objects)
                \/ <<bucket_name, "bytes">> \in DOMAIN S1.b /\ ~PackOK(inc_bytes)
             THEN [st |-> committed, status |-> "struct_error"]
        ELSE IF deleted THEN [st |-> S2, status |-> "deleted"]
        ELSE [st |-> S3, status |-> "updated"]

\* _update_container, one transaction; S is the committed store
_update_container(S, ev, now) ==
    LET a == ev.account
        c == ev.cname
        new_mtime == ev.mtime
        new_dtime == ev.dtime
        account_exists == a \in S.accts
        S1 == IF account_exists THEN S ELSE _create_account(S, a, now).st
        deleted_time == IF <<a, c>> \in DOMAIN S1.ctdel THEN S1.ctdel[<<a, c>>] ELSE 0
        present == RowPresent(S1, a, c)
        dtime0 == IF present THEN S1.ct[<<a, c, "dtime">>] ELSE 0
        mtime0 == IF present THEN S1.ct[<<a, c, "mtime">>] ELSE 0
        nb_objects == IF present THEN FromBytes(S1.ct[<<a, c, "objects">>]) ELSE 0
        nb_bytes == IF present THEN FromBytes(S1.ct[<<a, c, "bytes">>]) ELSE 0
        mtime1 == IF new_mtime > mtime0 THEN new_mtime ELSE mtime0
        dtime1 == IF new_dtime > dtime0 THEN new_dtime ELSE dtime0
        deleted == dtime1 >= mtime1
        mtime2 == IF deleted THEN dtime1 ELSE mtime1
        inc_objects == IF deleted THEN DeletionDelta(nb_objects)
                       ELSE UpdateDelta(ev.objects, nb_objects)
        inc_bytes == IF deleted THEN DeletionDelta(nb_bytes)
                     ELSE UpdateDelta(ev.bytes, nb_bytes)
        \* deletion branch: the row and its listing entry go, the marker is recorded
        S_del == [S1 EXCEPT
                    !.ct = Restrict(@, {k \in DOMAIN @ : ~(k[1] = a /\ k[2] = c)}),
                    !.cts = @ \ {<<a, c>>},
                    !.ctdel = Put(@, <<a, c>>, dtime1)]
        \* update branch: the row is overwritten with the new totals
        S_upd == [S1 EXCEPT
                    !.ct = Put(Put(Put(Put(Put(@,
                              <<a, c, "objects">>, Pack(ev.objects)),
                              <<a, c, "bytes">>, Pack(ev.bytes)),
                              <<a, c, "name">>, c),
                              <<a, c, "mtime">>, mtime1),
                              <<a, c, "dtime">>, dtime1),
                    !.cts = @ \cup {<<a, c>>}]
        S2 == IF deleted THEN S_del ELSE S_upd
        S3 == [S2 EXCEPT
                 !.acct = AccountCounter(
                            AccountCounter(@, <<a, "objects">>, inc_objects),
                            <<a, "bytes">>, inc_bytes)]
    IN  IF ~account_exists /\ ~ev.autocreate_account
        THEN [st |-> S, status |-> "no_account"]
        ELSE IF ~ev.autocreate_container /\ ~present
        THEN [st |-> S1, status |-> "no_container"]
        ELSE IF ~present /\ StaleAfterDelete(new_mtime, deleted_time)
        THEN [st |-> S1, status |-> "no_container"]
        ELSE IF ~ev.autocreate_container /\ dtime0 >= mtime0
        THEN [st |-> S1, status |-> "no_container"]
        ELSE IF ~Advances(new_mtime, new_dtime, mtime0, dtime0)
        THEN [st |-> S1, status |-> "no_update_needed"]
        ELSE IF ~deleted /\ ~MtimeAdvanced(mtime1, mtime0)
        THEN [st |-> S1, status |-> "no_update_needed"]
        ELSE IF \/ ~PackOK(inc_objects) \/ ~PackOK(inc_bytes)
                \/ ~deleted /\ (~PackOK(ev.objects) \/ ~PackOK(ev.bytes))
        THEN [st |-> S, status |-> "struct_error"]
        ELSE BucketBookkeeping(S3, S, ev, mtime2, inc_objects, inc_bytes, deleted)

\* update_container: the public operation and the error it raises
update_container(S, ev, now) ==
    IF ev.account = EmptyStr \/ ev.cname = EmptyStr
    THEN [st |-> S, result |-> "BadRequest", status |-> "bad_request"]
    ELSE LET r == _update_container(S, ev, now)
         IN  [st |-> r.st,
              status |-> r.status,
              result |-> CASE r.status = "no_account" -> "NotFound"
                           [] r.status = "no_container" -> "NotFound"
                           [] r.status = "no_update_needed" -> "Conflict"
                           [] r.status = "struct_error" -> "Error"
                           [] OTHER -> "ok"]

\* create_account
create_account(S, account_id, now) ==
    IF account_id = EmptyStr THEN [st |-> S, result |-> "none"]
    ELSE LET r == _create_account(S, account_id, now)
         IN  [st |-> r.st, result |-> IF r.status THEN "created" ELSE "none"]

\* a deletion that leaves the metadata of the account behind
_delete_account_keeps_metadata(S, account_id) ==
    [S EXCEPT
       !.acct = Restrict(@, {k \in DOMAIN @ : k[1] # account_id}),
       !.accts = @ \ {account_id},
       !.cts = {k \in @ : k[1] # account_id}]

\* _delete_account: clears the account's keys, its listing flag, its
\* metadata and its containers: index
_delete_account(S, account_id) ==
    [S EXCEPT
       !.acct = Restrict(@, {k \in DOMAIN @ : k[1] # account_id}),
       !.accts = @ \ {account_id},
       !.meta = Restrict(@, {k \in DOMAIN @ : k[1] # account_id}),
       !.cts = {k \in @ : k[1] # account_id}]

\* delete_account: None when unknown, False when a container key exists
delete_account(S, account_id) ==
    IF account_id = EmptyStr \/ <<account_id, "id">> \notin DOMAIN S.acct
    THEN [st |-> S, result |-> "none"]
    ELSE IF CtNames(S, account_id) # {}
    THEN [st |-> S, result |-> "not_empty"]
    ELSE [st |-> _delete_account(S, account_id), result |-> "deleted"]

\* a flush that zeroes the counters and clears the rows, the entries of
\* the containers: index staying
_flush_account_keeps_index(S, account_id) ==
    [S EXCEPT
       !.acct = Put(Put(@, <<account_id, "objects">>, Pack(0)),
                    <<account_id, "bytes">>, Pack(0)),
       !.ct = Restrict(@, {k \in DOMAIN @ : k[1] # account_id})]

\* _flush_account
_flush_account(S, account_id) ==
    [S EXCEPT
       !.acct = Put(Put(@, <<account_id, "objects">>, Pack(0)),
                    <<account_id, "bytes">>, Pack(0)),
       !.cts = {k \in @ : k[1] # account_id},
       !.ct = Restrict(@, {k \in DOMAIN @ : k[1] # account_id})]

\* flush_account
flush_account(S, account_id) ==
    IF account_id = EmptyStr THEN [st |-> S, result |-> "BadRequest"]
    ELSE IF account_id \notin S.accts THEN [st |-> S, result |-> "NotFound"]
    ELSE [st |-> _flush_account(S, account_id), result |-> "ok"]

RECURSIVE SumField(_, _, _, _)
\* the sum of one counter field over the rows of an account, each read
\* with int.from_bytes
SumField(S, account_id, names, field) ==
    IF names = {} THEN 0
    ELSE LET n == CHOOSE x \in names : TRUE
             v == IF <<account_id, n, field>> \in DOMAIN S.ct
                  THEN FromBytes(S.ct[<<account_id, n, field>>]) ELSE 0
         IN  v + SumField(S, account_id, names \ {n}, field)

\* a refresh that adds the sums to the account counters instead of
\* overwriting them
_refresh_account_adds(S, account_id) ==
    LET sum_bytes == SumField(S, account_id, CtNames(S, account_id), "bytes")
        sum_objects == SumField(S, account_id, CtNames(S, account_id), "objects")
    IN  IF account_id \notin S.accts THEN [st |-> S, result |-> "NotFound"]
        ELSE [st |-> [S EXCEPT
                        !.acct = AtomicAdd(AtomicAdd(@,
                                   <<account_id, "bytes">>, Pack(sum_bytes)),
                                   <<account_id, "objects">>, Pack(sum_objects))],
              result |-> "ok"]

\* _refresh_account: overwrites the account counters with the sums of
\* the 'bytes' and 'objects' keys of container:<account>
_refresh_account(S, account_id) ==
    LET sum_bytes == SumField(S, account_id, CtNames(S, account_id), "bytes")
        sum_objects == SumField(S, account_id, CtNames(S, account_id), "objects")
    IN  IF account_id \notin S.accts THEN [st |-> S, result |-> "NotFound"]
        ELSE IF ~PackOK(sum_bytes) \/ ~PackOK(sum_objects)
        THEN [st |-> S, result |-> "Error"]
        ELSE [st |-> [S EXCEPT
                        !.acct = Put(Put(@, <<account_id, "bytes">>, Pack(sum_bytes)),
                                     <<account_id, "objects">>, Pack(sum_objects))],
              result |-> "ok"]

-----------------------------------------------------------------------------
(* Range scans over container:<account> *)

\* Python's None, where a marker or a name is expected
None == <<-1>>

\* the keys (name, field) of one row, in key order
RowKeys(S, a, n) ==
    LET fs == SelectSeq(CtFields, LAMBDA f : <<a, n, f>> \in DOMAIN S.ct)
    IN  [i \in 1..Len(fs) |-> <<n, fs[i]>>]

RECURSIVE FlattenRows(_, _, _)
FlattenRows(S, a, names) ==
    IF names = <<>> THEN <<>>
    ELSE RowKeys(S, a, Head(names)) \o FlattenRows(S, a, Tail(names))

\* get_range(xx + b'\x02' + lo, xx + b'\x02' + hi): the keys whose name is
\* >= lo and < hi in byte order (None: the bound of the subspace)
ScanRange(S, a, lo, hi) ==
    FlattenRows(S, a, SortNames({n \in CtNames(S, a) :
                                   /\ lo = None \/ LexLeq(lo, n)
                                   /\ hi = None \/ LexLess(n, hi)}))

\* the first n elements of a sequence (get_range(..., limit=n))
Take(seq, n) == IF Len(seq) <= n THEN seq ELSE SubSeq(seq, 1, n)

-----------------------------------------------------------------------------
(* Refresh engine *)

DashPositions(s) == {i \in 1..Len(s) : s[i] = Dash}

\* container.split('-') followed by three pop(): the third pop raises
\* IndexError when the name has fewer than two dashes
SplitOK(container) == Cardinality(DashPositions(container)) >= 2

\* '-'.join of what is left after the three pop()
TruncatedCname(container) ==
    LET D == DashPositions(container)
    IN  IF Cardinality(D) = 2 THEN EmptyStr
        ELSE LET p == CHOOSE i \in D : Cardinality({j \in D : j > i}) = 2
             IN  SubSeq(container, 1, p - 1)

\* _list_containers: None (is_none) without a shard account, else the
\* names of the account's rows (those registered to bucket_name when one
\* is given)
_list_containers(S, account_id, bucket_name) ==
    IF (ShardsPrefix \o account_id) \notin S.accts
    THEN [is_none |-> TRUE, names |-> <<>>]
    ELSE [is_none |-> FALSE,
          names |-> SortNames({n \in CtNames(S, account_id) :
                      \/ bucket_name = None
                      \/ /\ <<account_id, n, "bucket">> \in DOMAIN S.ct
                         /\ S.ct[<<account_id, n, "bucket">>] = bucket_name})]

RECURSIVE ShardScan(_, _, _, _, _, _)
\* the loop of _refresh_sharded_ct over the scanned keys
ShardScan(S, sharded, keys, cname, batch_size, st) ==
    IF keys = <<>> THEN st
    ELSE LET container == Head(keys)[1]
             field == Head(keys)[2]
             val == FromBytes(S.ct[<<sharded, container, field>>])
         IN  IF field \notin {"bytes", "objects"}
             THEN ShardScan(S, sharded, Tail(keys), cname, batch_size, st)
             ELSE IF ~SplitOK(container) THEN [st EXCEPT !.error = TRUE]
             ELSE IF cname # TruncatedCname(container)
             THEN ShardScan(S, sharded, Tail(keys), cname, batch_size, st)
             ELSE IF st.count >= 2 * batch_size
             THEN [st EXCEPT !.new_marker = container, !.ended = FALSE]
             ELSE ShardScan(S, sharded, Tail(keys), cname, batch_size,
                    [st EXCEPT
                       !.new_marker = container,
                       !.found = TRUE,
                       !.sum_bytes = IF field = "bytes" THEN @ + val ELSE @,
                       !.sum_objects = IF field = "objects"
                                          /\ ~Contains(container, SegmentsTag)
                                       THEN @ + val ELSE @,
                       !.count = @ + 1])

\* the writes and the return value of _refresh_sharded_ct once the scan
\* has ended in st: the row is zeroed on the first batch only, the sums
\* are added, and the marker is returned unless the scan ran to its end
ShardWrite(S, account_id, cname, marker, st) ==
    IF st.error \/ ~PackOK(st.sum_objects) \/ ~PackOK(st.sum_bytes)
    THEN [st |-> S, marker |-> None, error |-> TRUE]
    ELSE IF ~st.found THEN [st |-> S, marker |-> None, error |-> FALSE]
    ELSE [st |-> [S EXCEPT !.ct =
                    AtomicAdd(AtomicAdd(
                        IF marker = None
                        THEN Put(Put(S.ct, <<account_id, cname, "objects">>, Pack(0)),
                                 <<account_id, cname, "bytes">>, Pack(0))
                        ELSE S.ct,
                        <<account_id, cname, "objects">>, Pack(st.sum_objects)),
                        <<account_id, cname, "bytes">>, Pack(st.sum_bytes))],
          marker |-> IF st.ended THEN None ELSE st.new_marker,
          error |-> FALSE]

\* _refresh_sharded_ct, one transaction: folds one batch of shard rows of
\* .shards_<account> into the row of cname
_refresh_sharded_ct(S, account_id, cname, marker, batch_size) ==
    IF account_id \notin S.accts \/ (ShardsPrefix \o account_id) \notin S.accts
    THEN [st |-> S, marker |-> None, error |-> FALSE]
    ELSE ShardWrite(S, account_id, cname, marker,
            ShardScan(S, ShardsPrefix \o account_id,
                ScanRange(S, ShardsPrefix \o account_id,
                          IF marker = None THEN cname ELSE marker, None),
                cname, batch_size,
                [new_marker |-> None, count |-> 0, found |-> FALSE,
                 ended |-> TRUE, sum_bytes |-> 0, sum_objects |-> 0,
                 error |-> FALSE]))

RECURSIVE ShardBatches(_, _, _, _, _)
\* what the inner "while True" of refresh_bucket / refresh_account does
\* with the value r that _refresh_sharded_ct returned
ShardBatchesNext(S, account_id, el, sharded_marker, batch_size, r) ==
    IF r.error THEN [st |-> S, marker |-> sharded_marker, error |-> TRUE]
    ELSE IF r.marker = None \/ r.marker = sharded_marker
    THEN [st |-> r.st, marker |-> sharded_marker, error |-> FALSE]
    ELSE ShardBatches(r.st, account_id, el, r.marker, batch_size)

\* the inner "while True" of refresh_bucket / refresh_account for one container
ShardBatches(S, account_id, el, sharded_marker, batch_size) ==
    ShardBatchesNext(S, account_id, el, sharded_marker, batch_size,
        _refresh_sharded_ct(S, account_id, el, sharded_marker, batch_size))

RECURSIVE ShardFold(_, _, _, _, _)
\* the "for el in containers" loop after the batches of its first
\* container have returned r
ShardFoldNext(account_id, containers, batch_size, r) ==
    IF r.error THEN [st |-> r.st, error |-> TRUE]
    ELSE ShardFold(r.st, account_id, Tail(containers), r.marker, batch_size)

\* the "for el in containers" loop; sharded_marker is carried from one
\* container to the next
ShardFold(S, account_id, containers, sharded_marker, batch_size) ==
    IF containers = <<>> THEN [st |-> S, error |-> FALSE]
    ELSE ShardFoldNext(account_id, containers, batch_size,
            ShardBatches(S, account_id, Head(containers), sharded_marker,
                         batch_size))

\* the shard pass once _list_containers has returned containers
RefreshShardsOver(S, account_id, containers, batch_size) ==
    IF containers.is_none THEN [st |-> S, error |-> FALSE]
    ELSE ShardFold(S, account_id, containers.names, None, batch_size)

\* the shard pass of refresh_bucket and refresh_account
RefreshShards(S, account_id, bucket_name, batch_size) ==
    RefreshShardsOver(S, account_id,
        _list_containers(S, account_id, bucket_name), batch_size)

\* refresh_account after the shard pass has returned f
RefreshAccountAfter(account_id, f) ==
    IF f.error THEN [st |-> f.st, result |-> "Error"]
    ELSE _refresh_account(f.st, account_id)

\* refresh_account
refresh_account(S, account_id, batch_size) ==
    IF account_id = EmptyStr THEN [st |-> S, result |-> "BadRequest"]
    ELSE RefreshAccountAfter(account_id,
            RefreshShards(S, account_id, None, batch_size))

\* a scan that reads the row of the marker again
SkipsNothing(marker, container) == FALSE

\* "if marker == container: continue": the row the batch before ended on
\* is not read again
SkipsMarker(marker, container) == marker = container

RECURSIVE BucketScan(_, _, _, _, _, _, _)
\* the loop of _refresh_bucket over the scanned keys
BucketScan(S, account_id, keys, bucket_name, marker, batch_size, st) ==
    IF keys = <<>> THEN st
    ELSE LET container == Head(keys)[1]
             field == Head(keys)[2]
             val == FromBytes(S.ct[<<account_id, container, field>>])
             member == /\ <<account_id, container, "bucket">> \in DOMAIN S.ct
                       /\ S.ct[<<account_id, container, "bucket">>] = bucket_name
             counted == member /\ field = "objects"
                        /\ ~Contains(container, SegmentsTag)
             st1 == [st EXCEPT
                       !.new_marker = container,
                       !.sum_bytes = IF member /\ field = "bytes" THEN @ + val ELSE @,
                       !.sum_objects = IF counted THEN @ + val ELSE @,
                       !.count = IF counted THEN @ + 1 ELSE @]
         IN  IF SkipsMarker(marker, container) \/ field \notin {"bytes", "objects"}
             THEN BucketScan(S, account_id, Tail(keys), bucket_name, marker,
                             batch_size, st)
             ELSE IF st1.count = 2 * batch_size THEN st1
             ELSE BucketScan(S, account_id, Tail(keys), bucket_name, marker,
                             batch_size, st1)

\* a refresh that adds every batch to the counters as it found them,
\* the first batch included
BucketWriteKeeps(S, bucket_name, marker, st) ==
    [st |-> [S EXCEPT !.b =
                AtomicAdd(AtomicAdd(S.b,
                    <<bucket_name, "objects">>, Pack(st.sum_objects)),
                    <<bucket_name, "bytes">>, Pack(st.sum_bytes))],
     marker |-> st.new_marker,
     error |-> FALSE]

\* the writes and the return value of _refresh_bucket once the scan has
\* ended in st: the bucket counters are zeroed on the first batch only
BucketWrite(S, bucket_name, marker, st) ==
    IF ~PackOK(st.sum_objects) \/ ~PackOK(st.sum_bytes)
    THEN [st |-> S, marker |-> None, error |-> TRUE]
    ELSE [st |-> [S EXCEPT !.b =
                    AtomicAdd(AtomicAdd(
                        IF marker = None
                        THEN Put(Put(S.b, <<bucket_name, "objects">>, Pack(0)),
                                 <<bucket_name, "bytes">>, Pack(0))
                        ELSE S.b,
                        <<bucket_name, "objects">>, Pack(st.sum_objects)),
                        <<bucket_name, "bytes">>, Pack(st.sum_bytes))],
          marker |-> st.new_marker,
          error |-> FALSE]

\* _refresh_bucket, one transaction: one batch of the bucket recomputation
_refresh_bucket(S, bucket_name, batch_size, marker) ==
    BucketWrite(S, bucket_name, marker,
        BucketScan(S, S.b[<<bucket_name, "account">>],
            ScanRange(S, S.b[<<bucket_name, "account">>], marker, None),
            bucket_name, marker, batch_size,
            [new_marker |-> None, count |-> 0,
             sum_bytes |-> 0, sum_objects |-> 0]))

RECURSIVE BucketBatches(_, _, _, _)
\* what the second "while True" of refresh_bucket does with the value r
\* that _refresh_bucket returned
BucketBatchesNext(S, bucket_name, batch_size, r) ==
    IF r.error THEN [st |-> S, result |-> "Error"]
    ELSE IF r.marker = None THEN [st |-> r.st, result |-> "ok"]
    ELSE BucketBatches(r.st, bucket_name, batch_size, r.marker)

\* the second "while True" of refresh_bucket
BucketBatches(S, bucket_name, batch_size, marker) ==
    BucketBatchesNext(S, bucket_name, batch_size,
        _refresh_bucket(S, bucket_name, batch_size, marker))

\* refresh_bucket after the shard pass has returned f
RefreshBucketAfter(bucket_name, batch_size, f) ==
    IF f.error THEN [st |-> f.st, result |-> "Error"]
    ELSE BucketBatches(f.st, bucket_name, batch_size, None)

\* refresh_bucket: returns silently when the bucket has no owner key
refresh_bucket(S, bucket_name, batch_size) ==
    IF <<bucket_name, "account">> \notin DOMAIN S.b
    THEN [st |-> S, result |-> "none"]
    ELSE RefreshBucketAfter(bucket_name, batch_size,
            RefreshShards(S, S.b[<<bucket_name, "account">>], bucket_name,
                          batch_size))

\* info_account: the account's keys, the counters read with int.from_bytes
info_account(S, account_id) ==
    IF account_id = EmptyStr \/ account_id \notin S.accts THEN None
    ELSE [objects |-> FromBytes(S.acct[<<account_id, "objects">>]),
          bytes |-> FromBytes(S.acct[<<account_id, "bytes">>]),
          containers |-> Cardinality({k \in S.cts : k[1] = account_id}),
          buckets |-> Cardinality({k \in S.bs : Len(k) = 2 /\ k[1] = account_id})]

\* the elements of a sequence in reverse order
Reverse(seq) == [i \in 1..Len(seq) |-> seq[Len(seq) + 1 - i]]

\* _list_accounts / list_accounts: the accounts: namespace read backwards
list_accounts(S) == Reverse(SortNames(S.accts))

\* status: the number of keys of the accounts: namespace
status(S) == [account_count |-> Cardinality(S.accts)]

\* _manage_metadata on metadata:<id_x>: the keys of to_delete are cleared,
\* then the entries of metadata are written
_manage_metadata(f, id_x, metadata, to_delete) ==
    LET kept == {k \in DOMAIN f : ~(k[1] = id_x /\ k[2] \in to_delete)}
        set == {<<id_x, key>> : key \in DOMAIN metadata}
    IN  [k \in kept \cup set |-> IF k \in set THEN metadata[k[2]] ELSE f[k]]

\* update_account_metadata: None without an id; for an unknown account
\* None when autocreate is off, and with autocreate on create_account(None)
\* followed by None.decode, an AttributeError
update_account_metadata(S, account_id, metadata, to_delete, autocreate) ==
    IF account_id = EmptyStr THEN [st |-> S, result |-> "none"]
    ELSE IF <<account_id, "id">> \notin DOMAIN S.acct
    THEN [st |-> S, result |-> IF autocreate THEN "Error" ELSE "none"]
    ELSE IF DOMAIN metadata = {} /\ to_delete = {}
    THEN [st |-> S, result |-> "ok"]
    ELSE [st |-> [S EXCEPT !.meta = _manage_metadata(@, S.acct[<<account_id, "id">>],
                                                    metadata, to_delete)],
          result |-> "ok"]

\* get_account_metadata: the metadata map of an account, None when unknown
get_account_metadata(S, account_id) ==
    IF account_id = EmptyStr \/ <<account_id, "id">> \notin DOMAIN S.acct THEN None
    ELSE [key \in {k[2] : k \in {x \in DOMAIN S.meta : x[1] = account_id}}
            |-> S.meta[<<account_id, key>>]]

-----------------------------------------------------------------------------
(* Listing engine *)

\* Python's truth value of an optional string: None and '' are false
Truthy(x) == x # None /\ x # EmptyStr

\* the number of keys after which a row without a 'bucket' key is complete
NB_ELEMNTS == 4

IsLower(ch) == ch >= 97 /\ ch <= 122
IsDigit(ch) == ch >= 48 /\ ch <= 57
Dot == 46

\* buckets_pattern.match(ctr): 3 to 63 characters, dot-separated labels of
\* [a-z0-9-] that start and end with a letter or a digit, and not of the
\* shape of an IPv4 address (digits and dots only, with at least one dot)
BucketsPattern(ctr) ==
    LET alnum(i) == IsLower(ctr[i]) \/ IsDigit(ctr[i])
        dots == {i \in 1..Len(ctr) : ctr[i] = Dot}
    IN  /\ Len(ctr) >= 3 /\ Len(ctr) <= 63
        /\ \A i \in 1..Len(ctr) : alnum(i) \/ ctr[i] = Dash \/ ctr[i] = Dot
        /\ alnum(1) /\ alnum(Len(ctr))
        /\ \A i \in dots : alnum(i - 1) /\ alnum(i + 1)
        /\ ~(dots # {} /\ \A i \in 1..Len(ctr) : IsDigit(ctr[i]) \/ ctr[i] = Dot)

\* current_values = [None, 0, 0, 0, 0]: name, objects, bytes, prefix flag, mtime
BlankValues == [name |-> None, objects |-> 0, bytes |-> 0, prefix |-> 0, mtime |-> 0]

\* [dir_name, 0, 0, 1, 0]
PrefixGroup(dir_name) ==
    [name |-> dir_name, objects |-> 0, bytes |-> 0, prefix |-> 1, mtime |-> 0]

RECURSIVE ListScan(_, _, _, _, _)
\* the "for key, val in iterator" loop of _raw_listing over one batch of
\* keys; q holds the arguments of the call, st the local variables
ListScan(S, a, keys, q, st) ==
    IF keys = <<>> THEN st
    ELSE LET ctr == Head(keys)[1]
             k == Head(keys)[2]
             val == S.ct[<<a, ctr, k>>]
             marker1 == IF Truthy(q.end_marker) THEN q.end_marker
                        ELSE ctr \o MarkerSuffix
             changed == st.current_ct # None /\ st.current_ct # ctr
             nb0 == IF changed THEN NB_ELEMNTS ELSE st.nb_elemnts
             end == IF Truthy(q.delimiter)
                    THEN Find(ctr, q.delimiter, Len(q.prefix)) ELSE -1
             dir_name == Prefix(ctr, end + 1)
             nb1 == IF k = "bucket" THEN NB_ELEMNTS + 1 ELSE nb0
             cur1 == [st.current_values EXCEPT
                        !.name = ctr,
                        !.objects = IF k = "objects" THEN FromBytes(val) ELSE @,
                        !.bytes = IF k = "bytes" THEN FromBytes(val) ELSE @,
                        !.mtime = IF k = "mtime" THEN val ELSE @]
             complete == st.count = nb1
         IN  IF Len(st.results) >= q.limit THEN st
             ELSE IF Truthy(q.prefix) /\ ~StartsWith(ctr, q.prefix)
             THEN [st EXCEPT !.beyond_prefix = TRUE, !.marker = None]
             ELSE IF q.orig_marker = ctr
             THEN ListScan(S, a, Tail(keys), q, [st EXCEPT !.marker = marker1])
             ELSE IF end > 0
             THEN [st EXCEPT
                     !.marker = dir_name \o MarkerSuffix,
                     !.current_ct = ctr,
                     !.nb_elemnts = nb0,
                     !.results = IF dir_name # q.orig_marker
                                 THEN Append(@, PrefixGroup(dir_name)) ELSE @,
                     !.empty = FALSE]
             ELSE ListScan(S, a, Tail(keys), q,
                    [st EXCEPT
                       !.marker = marker1,
                       !.current_ct = ctr,
                       !.nb_elemnts = nb1,
                       !.results = IF complete /\ (~q.s3_buckets_only
                                                   \/ BucketsPattern(ctr))
                                   THEN Append(@, cur1) ELSE @,
                       !.count = IF complete THEN 0 ELSE @ + 1,
                       !.current_values = IF complete THEN BlankValues ELSE cur1,
                       !.empty = FALSE])

RECURSIVE ListBatches(_, _, _, _, _)
\* the "while len(results) < limit and not beyond_prefix" loop of
\* _raw_listing, one get_range per turn; status "running" when the loop has
\* not ended after fuel turns
ListBatches(S, a, q, st, fuel) ==
    IF ~(Len(st.results) < q.limit /\ ~st.beyond_prefix)
    THEN [results |-> st.results, marker |-> st.marker, status |-> "ok"]
    ELSE IF fuel = 0
    THEN [results |-> st.results, marker |-> st.marker, status |-> "running"]
    ELSE LET local_limit == (q.limit - Len(st.results) + 1) * 5
             lo == IF Truthy(st.marker)
                      /\ (~Truthy(q.prefix) \/ LexLeq(q.prefix, st.marker))
                   THEN st.marker
                   ELSE IF Truthy(q.prefix) THEN q.prefix ELSE None
             hi == IF Truthy(q.end_marker) THEN q.end_marker ELSE None
             keys == Take(ScanRange(S, a, lo, hi), local_limit)
             r == ListScan(S, a, keys, q,
                    [st EXCEPT !.count = 0, !.empty = TRUE,
                               !.current_values = BlankValues])
         IN  IF Truthy(q.end_marker) /\ Truthy(q.prefix)
             THEN [results |-> <<>>, marker |-> None, status |-> "TypeError"]
             ELSE IF r.empty
             THEN [results |-> r.results, marker |-> r.marker, status |-> "ok"]
             ELSE ListBatches(S, a, q, r, fuel - 1)

\* _raw_listing over the rows of container:<account>
_raw_listing(S, a, limit, prefix, marker, end_marker, delimiter, s3_buckets_only, fuel) ==
    ListBatches(S, a,
        [limit |-> limit, prefix |-> IF prefix = None THEN EmptyStr ELSE prefix,
         orig_marker |-> marker, end_marker |-> end_marker,
         delimiter |-> delimiter, s3_buckets_only |-> s3_buckets_only],
        [results |-> <<>>, marker |-> marker, beyond_prefix |-> FALSE,
         current_ct |-> None, nb_elemnts |-> NB_ELEMNTS, count |-> 0,
         empty |-> TRUE, current_values |-> BlankValues],
        fuel)

\* list_containers: the raw list alone, the next marker is not returned
list_containers(S, account_id, limit, marker, end_marker, prefix, delimiter, s3_buckets_only, fuel) ==
    LET r == _raw_listing(S, account_id, limit, prefix, marker, end_marker,
                          delimiter, s3_buckets_only, fuel)
    IN  [raw_list |-> r.results, status |-> r.status]

\* the bucket names listed under buckets:<account>, within the range of a
\* get_range (None: the bound of the subspace), in key order
BucketRange(S, a, lo, hi) ==
    SortNames({k[2] : k \in {x \in S.bs :
                                /\ Len(x) = 2 /\ x[1] = a
                                /\ lo = None \/ LexLeq(lo, x[2])
                                /\ hi = None \/ LexLess(x[2], hi)}})

\* [ctr, nb_objects, nb_bytes, 0, mtime]: the counters of bucket:<ctr>,
\* zero for a key that is not there
BucketEntry(S, ctr) ==
    [name |-> ctr,
     objects |-> IF <<ctr, "objects">> \in DOMAIN S.b
                 THEN FromBytes(S.b[<<ctr, "objects">>]) ELSE 0,
     bytes |-> IF <<ctr, "bytes">> \in DOMAIN S.b
               THEN FromBytes(S.b[<<ctr, "bytes">>]) ELSE 0,
     prefix |-> 0,
     mtime |-> IF <<ctr, "mtime">> \in DOMAIN S.b THEN S.b[<<ctr, "mtime">>] ELSE 0]

RECURSIVE BucketListScan(_, _, _, _)
\* the "for key, val in iterator" loop of _raw_listing_m1 over one batch
\* of names; q holds the arguments of the call, st the local variables
BucketListScan(S, names, q, st) ==
    IF names = <<>> THEN st
    ELSE LET ctr == Head(names)
             marker1 == IF Truthy(q.end_marker) THEN q.end_marker
                        ELSE ctr \o MarkerSuffix
             end == IF Truthy(q.delimiter)
                    THEN Find(ctr, q.delimiter, Len(q.prefix)) ELSE -1
             dir_name == Prefix(ctr, end + 1)
         IN  IF Len(st.results) >= q.limit THEN st
             ELSE IF Truthy(q.prefix) /\ ~StartsWith(ctr, q.prefix)
             THEN [st EXCEPT !.beyond_prefix = TRUE, !.marker = None]
             ELSE IF q.orig_marker = ctr
             THEN BucketListScan(S, Tail(names), q, [st EXCEPT !.marker = marker1])
             ELSE IF end > 0
             THEN [st EXCEPT
                     !.marker = dir_name \o MarkerSuffix,
                     !.results = IF dir_name # q.orig_marker
                                 THEN Append(@, PrefixGroup(dir_name)) ELSE @,
                     !.empty = FALSE]
             ELSE BucketListScan(S, Tail(names), q,
                    [st EXCEPT
                       !.marker = marker1,
                       !.results = IF ~q.s3_buckets_only \/ BucketsPattern(ctr)
                                   THEN Append(@, BucketEntry(S, ctr)) ELSE @,
                       !.empty = FALSE])

RECURSIVE BucketListBatches(_, _, _, _, _)
\* what the "while" loop of _raw_listing_m1 does with the state r in which
\* the scan of one batch has ended
BucketListBatchesNext(S, a, q, r, fuel) ==
    IF r.empty
    THEN [results |-> r.results, marker |-> r.marker, status |-> "ok"]
    ELSE BucketListBatches(S, a, q, r, fuel - 1)

\* the "while len(results) < limit and not beyond_prefix" loop of
\* _raw_listing_m1, one get_range per turn; prefix + b'\xff' is a
\* TypeError when both prefix and end_marker are given
BucketListBatches(S, a, q, st, fuel) ==
    IF ~(Len(st.results) < q.limit /\ ~st.beyond_prefix)
    THEN [results |-> st.results, marker |-> st.marker, status |-> "ok"]
    ELSE IF fuel = 0
    THEN [results |-> st.results, marker |-> st.marker, status |-> "running"]
    ELSE IF Truthy(q.end_marker) /\ Truthy(q.prefix)
    THEN [results |-> <<>>, marker |-> None, status |-> "TypeError"]
    ELSE BucketListBatchesNext(S, a, q,
            BucketListScan(S,
                Take(BucketRange(S, a,
                        IF Truthy(st.marker)
                           /\ (~Truthy(q.prefix) \/ LexLeq(q.prefix, st.marker))
                        THEN st.marker
                        ELSE IF Truthy(q.prefix) THEN q.prefix ELSE None,
                        IF Truthy(q.end_marker) THEN q.end_marker ELSE None),
                     q.limit - Len(st.results) + 1),
                q, [st EXCEPT !.empty = TRUE]),
            fuel)

\* _raw_listing_m1 over the names of buckets:<account>
_raw_listing_m1(S, a, limit, prefix, marker, end_marker, delimiter, s3_buckets_only, fuel) ==
    BucketListBatches(S, a,
        [limit |-> limit, prefix |-> IF prefix = None THEN EmptyStr ELSE prefix,
         orig_marker |-> marker, end_marker |-> end_marker,
         delimiter |-> delimiter, s3_buckets_only |-> s3_buckets_only],
        [results |-> <<>>, marker |-> marker, beyond_prefix |-> FALSE,
         empty |-> TRUE],
        fuel)

\* what list_buckets makes of the value r of _raw_listing_m1
ListBucketsOutput(r) ==
    [output |-> r.results, next_marker |-> r.marker, status |-> r.status]

\* list_buckets: the buckets of an account with their counters, and the
\* next marker
list_buckets(S, account_id, limit, marker, end_marker, prefix, fuel) ==
    ListBucketsOutput(
        _raw_listing_m1(S, account_id, limit, prefix, marker, end_marker,
                        None, FALSE, fuel))

\* get_bucket_info: the keys of bucket:<bname>, the counters read with
\* int.from_bytes; None without a name or without a key
get_bucket_info(S, bname) ==
    IF bname = EmptyStr \/ {k \in DOMAIN S.b : k[1] = bname} = {} THEN None
    ELSE [f \in {k[2] : k \in {x \in DOMAIN S.b : x[1] = bname}} |->
            IF f \in {"bytes", "objects"} THEN FromBytes(S.b[<<bname, f>>])
            ELSE S.b[<<bname, f>>]]

\* a read that leaves a trace of itself in the accounts: namespace
ReadTransactionMarks(S) == [S EXCEPT !.accts = @ \cup {EmptyStr}]

\* what a transaction that issued no write commits: the store as it was
ReadTransaction(S) == S

-----------------------------------------------------------------------------
(* The backend driven serially by its callers *)

\* "c", a plain container
CtPlain == <<99>>
\* "bk", a bucket and the name of its root container
BucketBk == <<98, 107>>
\* bytes reported per unit of bytes_used
ByteUnit == 100

\* "d", another plain container
CtOther == <<100>>

Accounts == {AccountA}

\* the events the front-ends report (autocreate flags at their defaults)
EventsOver(accounts, containers, buckets) ==
    [account : accounts, cname : containers,
     mtime : 0..MaxTime, dtime : 0..MaxTime,
     objects : 0..MaxCount, bytes : {ByteUnit * k : k \in 0..MaxCount},
     bucket : buckets,
     autocreate_account : {TRUE}, autocreate_container : {TRUE}]

\* events on two containers of account A that belong to no bucket
Events == EventsOver(Accounts, {CtPlain, CtOther}, {EmptyStr})

\* events on a container of account A, reported with or without its bucket
BucketEvents == EventsOver(Accounts, {CtPlain}, {EmptyStr, BucketBk})

NoEvent ==
    [account |-> EmptyStr, cname |-> EmptyStr, mtime |-> 0, dtime |-> 0,
     objects |-> 0, bytes |-> 0, bucket |-> EmptyStr,
     autocreate_account |-> FALSE, autocreate_container |-> FALSE]

\* the record of the last operation: what was called, what it answered,
\* whether it removed a live row (tomb), whether it re-applied the event
\* of the operation just before it, the bucket name aside (replay_of), how
\* many objects the removed row held (freed) and the bucket it was
\* registered to (freed_bucket)
Tombstones(S, T, ev) ==
    RowPresent(S, ev.account, ev.cname) /\ ~RowPresent(T, ev.account, ev.cname)

ReplayOf(last, ev) ==
    IF \/ last.kind # "update_container"
       \/ [last.ev EXCEPT !.bucket = EmptyStr] # [ev EXCEPT !.bucket = EmptyStr]
    THEN "none"
    ELSE IF last.tomb \/ last.replay_of = "tombstone" THEN "tombstone"
    ELSE IF last.result = "ok" THEN "accepted"
    ELSE "rejected"

\* the object count of the row this call removed or, for a replay of the
\* call that removed it, the count that call removed
Freed(S, T, last, ev) ==
    IF Tombstones(S, T, ev)
    THEN FromBytes(S.ct[<<ev.account, ev.cname, "objects">>])
    ELSE IF ReplayOf(last, ev) = "tombstone" THEN last.freed
    ELSE 0

FreedBucket(S, T, last, ev) ==
    IF Tombstones(S, T, ev)
    THEN IF <<ev.account, ev.cname, "bucket">> \in DOMAIN S.ct
         THEN S.ct[<<ev.account, ev.cname, "bucket">>] ELSE EmptyStr
    ELSE IF ReplayOf(last, ev) = "tombstone" THEN last.freed_bucket
    ELSE EmptyStr

\* what a client that lists the containers of an account holds: the
\* arguments it repeats from call to call, the marker of its next call, the
\* entries it has received and whether it has received an empty page
NoListing ==
    [kind |-> "none", limit |-> 0, prefix |-> EmptyStr, marker |-> None,
     entries |-> <<>>, calls |-> 0, done |-> FALSE, status |-> "none"]

\* what an operation that runs as several transactions holds between two
\* of them: the operation and its target, the step it is at (pc), the
\* batch size, the containers the shard pass has still to fold, the markers
\* of its two loops, the marker given to and returned by its last batch,
\* the sums that _refresh_account has read, and its answer once it is done
NoTask ==
    [kind |-> "none", pc |-> "idle", target |-> EmptyStr, account |-> EmptyStr,
     batch |-> 0, containers |-> <<>>, sharded_marker |-> None,
     marker |-> None, last |-> "none", given |-> None, returned |-> None,
     sum_objects |-> 0, sum_bytes |-> 0, calls |-> 0, result |-> "none"]

\* the keys of the store, the record of the last call left aside
StoreVars == <<accts, acct, cts, ct, ctdel, bs, b, meta>>

\* the transaction commits
Commit(S) ==
    /\ accts' = S.accts
    /\ acct' = S.acct
    /\ cts' = S.cts
    /\ ct' = S.ct
    /\ ctdel' = S.ctdel
    /\ bs' = S.bs
    /\ b' = S.b
    /\ meta' = S.meta

\* the variables hold the store S
Commit0(S) ==
    /\ accts = S.accts
    /\ acct = S.acct
    /\ cts = S.cts
    /\ ct = S.ct
    /\ ctdel = S.ctdel
    /\ bs = S.bs
    /\ b = S.b
    /\ meta = S.meta

Init ==
    /\ accts = {}
    /\ acct = EmptyFn
    /\ cts = {}
    /\ ct = EmptyFn
    /\ ctdel = EmptyFn
    /\ bs = {}
    /\ b = EmptyFn
    /\ meta = EmptyFn
    /\ clock = 0
    /\ op = [kind |-> "init", target |-> EmptyStr, batch |-> 0, ev |-> NoEvent,
             status |-> "none", result |-> "none",
             tomb |-> FALSE, replay_of |-> "none", freed |-> 0,
                     freed_bucket |-> EmptyStr]
    /\ listing = NoListing
    /\ task = NoTask

CreateAccount(a) ==
    /\ clock < MaxOps
    /\ LET r == create_account(Store, a, clock + 1)
       IN  /\ Commit(r.st)
           /\ op' = [kind |-> "create_account", target |-> a, batch |-> 0, ev |-> NoEvent,
                     status |-> r.result, result |-> r.result,
                     tomb |-> FALSE, replay_of |-> "none", freed |-> 0,
                     freed_bucket |-> EmptyStr]
    /\ clock' = clock + 1
    /\ UNCHANGED <<listing, task>>

DeleteAccount(a) ==
    /\ clock < MaxOps
    /\ LET r == delete_account(Store, a)
       IN  /\ Commit(r.st)
           /\ op' = [kind |-> "delete_account", target |-> a, batch |-> 0, ev |-> NoEvent,
                     status |-> r.result, result |-> r.result,
                     tomb |-> FALSE, replay_of |-> "none", freed |-> 0,
                     freed_bucket |-> EmptyStr]
    /\ clock' = clock + 1
    /\ UNCHANGED <<listing, task>>

UpdateContainer(ev) ==
    /\ clock < MaxOps
    /\ LET r == update_container(Store, ev, clock + 1)
       IN  /\ Commit(r.st)
           /\ op' = [kind |-> "update_container", target |-> ev.account,
                     batch |-> 0, ev |-> ev, status |-> r.status, result |-> r.result,
                     tomb |-> Tombstones(Store, r.st, ev),
                     replay_of |-> ReplayOf(op, ev),
                     freed |-> Freed(Store, r.st, op, ev),
                     freed_bucket |-> FreedBucket(Store, r.st, op, ev)]
    /\ clock' = clock + 1
    /\ UNCHANGED <<listing, task>>

FlushAccount(a) ==
    /\ clock < MaxOps
    /\ LET r == flush_account(Store, a)
       IN  /\ Commit(r.st)
           /\ op' = [kind |-> "flush_account", target |-> a, batch |-> 0, ev |-> NoEvent,
                     status |-> r.result, result |-> r.result,
                     tomb |-> r.result = "ok" /\ CtNames(Store, a) # {}, replay_of |-> "none", freed |-> 0,
                     freed_bucket |-> EmptyStr]
    /\ clock' = clock + 1
    /\ UNCHANGED <<listing, task>>

RefreshAccount(a, batch_size) ==
    /\ clock < MaxOps
    /\ LET r == refresh_account(Store, a, batch_size)
       IN  /\ Commit(r.st)
           /\ op' = [kind |-> "refresh_account", target |-> a,
                     batch |-> batch_size, ev |-> NoEvent,
                     status |-> r.result, result |-> r.result,
                     tomb |-> FALSE, replay_of |-> "none", freed |-> 0,
                     freed_bucket |-> EmptyStr]
    /\ clock' = clock + 1
    /\ UNCHANGED <<listing, task>>

Next ==
    \/ \E a \in Accounts : CreateAccount(a)
    \/ \E a \in Accounts : DeleteAccount(a)
    \/ \E ev \in Events : UpdateContainer(ev)
    \/ \E a \in Accounts : FlushAccount(a)
    \/ \E a \in Accounts, n \in 1..MaxBatch : RefreshAccount(a, n)

Spec == Init /\ [][Next]_vars

NextBucket ==
    \/ \E ev \in BucketEvents : UpdateContainer(ev)
    \/ \E a \in Accounts : FlushAccount(a)

\* the same backend, driven by events that carry a bucket name
SpecBucket == Init /\ [][NextBucket]_vars

-----------------------------------------------------------------------------
(* The refresh of a bucket whose containers are sharded *)

\* the shard rows of .shards_A: <root>-<hash>-<timestamp>-<index>, and
\* one row named <root>-<hash>-<timestamp> with no index; the hash and
\* timestamp parts are cut to one character ("h", "t")
\* "c-h-t"
ShardC == <<99, 45, 104, 45, 116>>
\* "c-h-t-0"
ShardC0 == <<99, 45, 104, 45, 116, 45, 48>>
\* "c-h-t-1"
ShardC1 == <<99, 45, 104, 45, 116, 45, 49>>
\* "d-h-t-0"
ShardD0 == <<100, 45, 104, 45, 116, 45, 48>>

LogicalNames == {CtPlain, CtOther}
ShardNames == {ShardC, ShardC0, ShardC1, ShardD0}

\* the event that reports a container with k objects, at mtime 1
Report(account, cname, k, bucket) ==
    [account |-> account, cname |-> cname, mtime |-> 1, dtime |-> 0,
     objects |-> k, bytes |-> ByteUnit * k, bucket |-> bucket,
     autocreate_account |-> TRUE, autocreate_container |-> TRUE]

RECURSIVE ApplyEvents(_, _, _)
\* the store after a sequence of update_container calls
ApplyEvents(S, evs, now) ==
    IF evs = <<>> THEN S
    ELSE ApplyEvents(update_container(S, Head(evs), now + 1).st, Tail(evs), now + 1)

\* the store after the logical containers c and d of bucket bk and the
\* shards in present have been reported with the given object counts
ShardedStore(present, load) ==
    LET logical == SortNames(LogicalNames)
        shards == SortNames(present)
        evs == [i \in 1..Len(logical) |->
                   Report(AccountA, logical[i], load[logical[i]], BucketBk)]
               \o [i \in 1..Len(shards) |->
                   Report(ShardsA, shards[i], load[shards[i]], BucketBk)]
    IN  ApplyEvents(EmptyStore, evs, 0)

InitShards ==
    /\ \E present \in SUBSET ShardNames :
       \E load \in [LogicalNames \cup ShardNames -> 0..MaxCount] :
          /\ \A n \in ShardNames \ present : load[n] = 0
          /\ Commit0(ShardedStore(present, load))
    /\ clock = 0
    /\ op = [kind |-> "init", target |-> EmptyStr, batch |-> 0, ev |-> NoEvent,
             status |-> "none", result |-> "none",
             tomb |-> FALSE, replay_of |-> "none", freed |-> 0,
                     freed_bucket |-> EmptyStr]
    /\ listing = NoListing
    /\ task = NoTask

RefreshBucket(bucket_name, batch_size) ==
    /\ clock < MaxOps
    /\ LET r == refresh_bucket(Store, bucket_name, batch_size)
       IN  /\ Commit(r.st)
           /\ op' = [kind |-> "refresh_bucket", target |-> bucket_name,
                     batch |-> batch_size, ev |-> NoEvent,
                     status |-> r.result, result |-> r.result,
                     tomb |-> FALSE, replay_of |-> "none", freed |-> 0,
                     freed_bucket |-> EmptyStr]
    /\ clock' = clock + 1
    /\ UNCHANGED <<listing, task>>

NextShards ==
    \/ \E n \in 1..MaxBatch : RefreshBucket(BucketBk, n)
    \/ \E n \in 1..MaxBatch : RefreshAccount(AccountA, n)

\* refreshes run one after the other over a store holding shard rows
SpecShards == InitShards /\ [][NextShards]_vars

-----------------------------------------------------------------------------
(* The refresh of a bucket over the containers of an unsharded account *)

\* "c+segments", the segments container of c
CtSegments == CtPlain \o SegmentsTag
\* "zz", a bucket nothing was ever reported for
BucketZz == <<122, 122>>

RefreshNames == {BucketBk, CtPlain, CtSegments, CtOther}

\* the event that brings container n to the given state with k objects:
\* never reported, live without a bucket, live in bucket bk
LoadedEventsFor(n, state, k) ==
    IF state = "absent" THEN <<>>
    ELSE IF state = "bucket" THEN <<Report(AccountA, n, k, BucketBk)>>
    ELSE <<Report(AccountA, n, k, EmptyStr)>>

RECURSIVE LoadedEvents(_, _, _)
LoadedEvents(names, state, load) ==
    IF names = <<>> THEN <<>>
    ELSE LoadedEventsFor(Head(names), state[Head(names)], load[Head(names)])
         \o LoadedEvents(Tail(names), state, load)

InitRefresh ==
    /\ \E state \in [RefreshNames -> {"absent", "plain", "bucket"}] :
       \E load \in [RefreshNames -> 0..MaxCount] :
          /\ \A n \in RefreshNames : state[n] = "absent" => load[n] = 0
          /\ Commit0(ApplyEvents(EmptyStore,
                        LoadedEvents(SortNames(RefreshNames), state, load), 0))
    /\ clock = 0
    /\ op = [kind |-> "init", target |-> EmptyStr, batch |-> 0, ev |-> NoEvent,
             status |-> "none", result |-> "none",
             tomb |-> FALSE, replay_of |-> "none", freed |-> 0,
                     freed_bucket |-> EmptyStr]
    /\ listing = NoListing
    /\ task = NoTask

NextRefresh ==
    \/ \E bk \in {BucketBk, BucketZz}, n \in 1..MaxBatch : RefreshBucket(bk, n)
    \/ \E a \in Accounts : FlushAccount(a)

\* bucket refreshes and account flushes over a store whose bucket counters
\* were left by the container events
SpecRefresh == InitRefresh /\ [][NextRefresh]_vars

-----------------------------------------------------------------------------
(* The answers of update_container *)

\* events on container c of account A with every setting of the autocreate
\* flags, and two events that lack the account id or the container name
ErrorEvents ==
    {[e EXCEPT !.autocreate_account = x, !.autocreate_container = y] :
        e \in {f \in EventsOver(Accounts, {CtPlain}, {EmptyStr}) :
                  f.bytes = ByteUnit * f.objects},
        x \in BOOLEAN, y \in BOOLEAN}
    \cup {[Report(AccountA, CtPlain, 1, EmptyStr) EXCEPT !.account = EmptyStr],
          [Report(AccountA, CtPlain, 1, EmptyStr) EXCEPT !.cname = EmptyStr]}

NextErrors == \E ev \in ErrorEvents : UpdateContainer(ev)

SpecErrors == Init /\ [][NextErrors]_vars

-----------------------------------------------------------------------------
(* The life of two accounts *)

\* "B"
AccountB == <<66>>
\* the ids that callers pass: two accounts, and no id at all
AccountIds == {EmptyStr, AccountA, AccountB}

\* boolean_value(conf.get('autocreate'), True) with the key left out
Autocreate == TRUE

MetaKeys == {"owner"}
MetaValues == {"x", "y"}
\* the metadata maps of a call: a value for some of the keys
MetaMaps == UNION {[K -> MetaValues] : K \in SUBSET MetaKeys}

\* events on container c of either account
AccountEvents ==
    {e \in EventsOver({AccountA, AccountB}, {CtPlain}, {EmptyStr}) :
        e.bytes = ByteUnit * e.objects}

UpdateAccountMetadata(a, metadata, to_delete) ==
    /\ clock < MaxOps
    /\ LET r == update_account_metadata(Store, a, metadata, to_delete, Autocreate)
       IN  /\ Commit(r.st)
           /\ op' = [kind |-> "update_account_metadata", target |-> a,
                     batch |-> 0, ev |-> NoEvent,
                     status |-> r.result, result |-> r.result,
                     tomb |-> FALSE, replay_of |-> "none", freed |-> 0,
                     freed_bucket |-> EmptyStr]
    /\ clock' = clock + 1
    /\ UNCHANGED <<listing, task>>

NextAccounts ==
    \/ \E a \in AccountIds : CreateAccount(a)
    \/ \E a \in AccountIds : DeleteAccount(a)
    \/ \E a \in AccountIds : FlushAccount(a)
    \/ \E a \in AccountIds, metadata \in MetaMaps, to_delete \in SUBSET MetaKeys :
          UpdateAccountMetadata(a, metadata, to_delete)
    \/ \E ev \in AccountEvents : UpdateContainer(ev)

SpecAccounts == Init /\ [][NextAccounts]_vars

-----------------------------------------------------------------------------
(* The listing of an account that does not change *)

\* "a/x"
NameAX == <<97, 47, 120>>
\* "a/y"
NameAY == <<97, 47, 121>>
\* "b"
NameB == <<98>>
\* "a", a prefix
PrefixA == <<97>>

ListNames == {NameAX, NameAY, NameB, CtPlain}
\* no prefix, or "a"
ListPrefixes == {None, PrefixA}

\* the largest page size a client asks for
MaxLimit == 4
\* the turns of the batch loop of one call that are followed
ListFuel == MaxLimit + 2
\* the calls a client makes: one per container, and one more
MaxCalls == Cardinality(ListNames) + 1

\* the events that bring container n to the given state: never reported,
\* reported then deleted, live without a bucket, live in bucket bk
EventsFor(n, state) ==
    IF state = "absent" THEN <<>>
    ELSE IF state = "bucket" THEN <<Report(AccountA, n, MaxCount, BucketBk)>>
    ELSE IF state = "plain" THEN <<Report(AccountA, n, MaxCount, EmptyStr)>>
    ELSE <<Report(AccountA, n, MaxCount, EmptyStr),
           [Report(AccountA, n, MaxCount, EmptyStr) EXCEPT !.mtime = 2, !.dtime = 2]>>

RECURSIVE EventsForAll(_, _)
EventsForAll(names, state) ==
    IF names = <<>> THEN <<>>
    ELSE EventsFor(Head(names), state[Head(names)]) \o EventsForAll(Tail(names), state)

InitListing ==
    /\ \E state \in [ListNames -> {"absent", "deleted", "plain", "bucket"}] :
          Commit0(ApplyEvents(EmptyStore, EventsForAll(SortNames(ListNames), state), 0))
    /\ clock = 0
    /\ op = [kind |-> "init", target |-> EmptyStr, batch |-> 0, ev |-> NoEvent,
             status |-> "none", result |-> "none",
             tomb |-> FALSE, replay_of |-> "none", freed |-> 0,
                     freed_bucket |-> EmptyStr]
    /\ listing = NoListing
    /\ task = NoTask

\* the record of a call that reads the store
ReadOp(kind, answer) ==
    [kind |-> kind, target |-> AccountA, batch |-> 0, ev |-> NoEvent,
     status |-> answer, result |-> answer,
     tomb |-> FALSE, replay_of |-> "none", freed |-> 0,
     freed_bucket |-> EmptyStr]

\* one call of list_containers by a client that pages through the account:
\* the first call has no marker, each later call repeats limit and prefix
\* and passes the name of the last entry of the previous page
ListContainers(limit, prefix) ==
    /\ listing.kind \in {"none", "pages"}
    /\ ~listing.done
    /\ listing.calls < MaxCalls
    /\ listing.kind = "pages" => limit = listing.limit /\ prefix = listing.prefix
    /\ LET r == list_containers(Store, AccountA, limit, listing.marker, None,
                                prefix, None, FALSE, ListFuel)
           n == Len(r.raw_list)
       IN  /\ listing' = [kind |-> "pages", limit |-> limit, prefix |-> prefix,
                          marker |-> IF n = 0 THEN listing.marker
                                     ELSE r.raw_list[n].name,
                          entries |-> listing.entries \o r.raw_list,
                          calls |-> listing.calls + 1,
                          done |-> n = 0 \/ r.status # "ok",
                          status |-> r.status]
           /\ op' = ReadOp("list_containers", r.status)
    /\ clock' = clock
    /\ task' = task
    /\ UNCHANGED StoreVars

\* one call of list_containers with delimiter "/" and no marker
ListDelimited(limit, prefix) ==
    /\ listing.kind = "none"
    /\ LET r == list_containers(Store, AccountA, limit, None, None,
                                prefix, Slash, FALSE, ListFuel)
       IN  /\ listing' = [kind |-> "delimited", limit |-> limit, prefix |-> prefix,
                          marker |-> None,
                          entries |-> r.raw_list,
                          calls |-> 1,
                          done |-> TRUE,
                          status |-> r.status]
           /\ op' = ReadOp("list_containers", r.status)
    /\ clock' = clock
    /\ task' = task
    /\ UNCHANGED StoreVars

NextListing ==
    \/ \E limit \in 1..MaxLimit, prefix \in ListPrefixes : ListContainers(limit, prefix)
    \/ \E limit \in 1..MaxLimit, prefix \in ListPrefixes : ListDelimited(limit, prefix)

SpecListing == InitListing /\ [][NextListing]_vars

-----------------------------------------------------------------------------
(* The operations that read the store *)

\* the containers of account A: "b", "bk" and "c"
ReadNames == {NameB, BucketBk, CtPlain}

\* the events that bring container n to the given state; "root": the root
\* container of the bucket of its own name, reported empty and then with
\* objects
ReadEventsFor(n, state) ==
    IF state = "root"
    THEN <<Report(AccountA, n, 0, n),
           [Report(AccountA, n, MaxCount, n) EXCEPT !.mtime = 2]>>
    ELSE EventsFor(n, state)

RECURSIVE ReadEventsForAll(_, _)
ReadEventsForAll(names, state) ==
    IF names = <<>> THEN <<>>
    ELSE ReadEventsFor(Head(names), state[Head(names)])
         \o ReadEventsForAll(Tail(names), state)

InitReads ==
    /\ \E state \in [ReadNames -> {"absent", "deleted", "plain", "root"}] :
          Commit0(ApplyEvents(EmptyStore,
                    ReadEventsForAll(SortNames(ReadNames), state), 0))
    /\ clock = 0
    /\ op = [kind |-> "init", target |-> EmptyStr, batch |-> 0, ev |-> NoEvent,
             status |-> "none", result |-> "none",
             tomb |-> FALSE, replay_of |-> "none", freed |-> 0,
                     freed_bucket |-> EmptyStr]
    /\ listing = NoListing
    /\ task = NoTask

\* the arguments of a listing: the smallest and the largest page, no
\* prefix or "b", no marker or "b" or "zz", no end marker or "c"
ReadLimits == {1, MaxLimit}
ReadPrefixes == {None, NameB}
ReadMarkers == {None, NameB, BucketZz}
ReadEndMarkers == {None, CtPlain}

\* what the caller of a read holds afterwards
Answer(kind, entries, marker, answer) ==
    [kind |-> kind, limit |-> 0, prefix |-> EmptyStr, marker |-> marker,
     entries |-> entries, calls |-> 1, done |-> TRUE, status |-> answer]

\* one call of list_buckets
ListBuckets(limit, prefix, marker, end_marker) ==
    /\ listing.kind = "none"
    /\ LET r == list_buckets(Store, AccountA, limit, marker, end_marker,
                             prefix, ListFuel)
       IN  /\ listing' = Answer("buckets", r.output, r.next_marker, r.status)
           /\ op' = ReadOp("list_buckets", r.status)
    /\ Commit(ReadTransaction(Store))
    /\ clock' = clock
    /\ task' = task

\* one call of list_containers, seen at _raw_listing: the page and the
\* next marker
RawListing(limit, prefix, marker, end_marker) ==
    /\ listing.kind = "none"
    /\ LET r == _raw_listing(Store, AccountA, limit, prefix, marker, end_marker,
                             None, FALSE, ListFuel)
       IN  /\ listing' = Answer("raw", r.results, r.marker, r.status)
           /\ op' = ReadOp("list_containers", r.status)
    /\ Commit(ReadTransaction(Store))
    /\ clock' = clock
    /\ task' = task

ListAccounts ==
    /\ listing.kind = "none"
    /\ listing' = Answer("accounts", list_accounts(Store), None, "ok")
    /\ op' = ReadOp("list_accounts", "ok")
    /\ Commit(ReadTransaction(Store))
    /\ clock' = clock
    /\ task' = task

InfoAccount(a) ==
    /\ listing.kind = "none"
    /\ listing' = Answer("info", <<info_account(Store, a)>>, None, "ok")
    /\ op' = ReadOp("info_account", "ok")
    /\ Commit(ReadTransaction(Store))
    /\ clock' = clock
    /\ task' = task

GetBucketInfo(bname) ==
    /\ listing.kind = "none"
    /\ listing' = Answer("bucket", <<get_bucket_info(Store, bname)>>, None, "ok")
    /\ op' = ReadOp("get_bucket_info", "ok")
    /\ Commit(ReadTransaction(Store))
    /\ clock' = clock
    /\ task' = task

Status ==
    /\ listing.kind = "none"
    /\ listing' = Answer("status", <<status(Store)>>, None, "ok")
    /\ op' = ReadOp("status", "ok")
    /\ Commit(ReadTransaction(Store))
    /\ clock' = clock
    /\ task' = task

NextReads ==
    \/ \E limit \in ReadLimits, prefix \in ReadPrefixes,
          marker \in ReadMarkers, end_marker \in ReadEndMarkers :
          ListBuckets(limit, prefix, marker, end_marker)
    \/ \E limit \in ReadLimits, prefix \in ReadPrefixes,
          marker \in ReadMarkers, end_marker \in ReadEndMarkers :
          RawListing(limit, prefix, marker, end_marker)
    \/ ListAccounts
    \/ \E a \in AccountIds : InfoAccount(a)
    \/ \E bname \in {EmptyStr, NameB, BucketBk, BucketZz} : GetBucketInfo(bname)
    \/ Status

\* one read by one caller over a store that holds containers and buckets
SpecReads == InitReads /\ [][NextReads]_vars

-----------------------------------------------------------------------------
(* A client that pages through the buckets of an account *)

\* "b-", a bucket whose name extends the name of bucket "b"
NameBDash == Append(NameB, Dash)

\* the buckets of account A: "b", "b-", "bk" and "c"
PageNames == {NameB, NameBDash, BucketBk, CtPlain}

InitPages ==
    /\ \E state \in [PageNames -> {"absent", "root"}] :
          Commit0(ApplyEvents(EmptyStore,
                    ReadEventsForAll(SortNames(PageNames), state), 0))
    /\ clock = 0
    /\ op = [kind |-> "init", target |-> EmptyStr, batch |-> 0, ev |-> NoEvent,
             status |-> "none", result |-> "none",
             tomb |-> FALSE, replay_of |-> "none", freed |-> 0,
                     freed_bucket |-> EmptyStr]
    /\ listing = NoListing
    /\ task = NoTask

\* one call of list_buckets by a client that pages through the account:
\* the first call has no marker, each later call repeats limit and prefix
\* and passes the next marker returned by the call before; the client
\* stops at a null marker or an empty page
ListBucketsPage(limit, prefix) ==
    /\ listing.kind \in {"none", "bucket_pages"}
    /\ ~listing.done
    /\ listing.calls < MaxCalls
    /\ listing.kind = "bucket_pages"
          => limit = listing.limit /\ prefix = listing.prefix
    /\ LET r == list_buckets(Store, AccountA, limit, listing.marker, None,
                             prefix, ListFuel)
       IN  /\ listing' = [kind |-> "bucket_pages", limit |-> limit,
                          prefix |-> prefix,
                          marker |-> r.next_marker,
                          entries |-> listing.entries \o r.output,
                          calls |-> listing.calls + 1,
                          done |-> \/ r.next_marker = None
                                   \/ r.output = <<>>
                                   \/ r.status # "ok",
                          status |-> r.status]
           /\ op' = ReadOp("list_buckets", r.status)
    /\ Commit(ReadTransaction(Store))
    /\ clock' = clock
    /\ task' = task

NextPages ==
    \E limit \in 1..MaxLimit, prefix \in {None, NameB} :
        ListBucketsPage(limit, prefix)

SpecPages == InitPages /\ [][NextPages]_vars

-----------------------------------------------------------------------------
(* A refresh of a bucket, one transaction per batch, among updates *)

\* the containers of bucket bk in account A: "bk", "c" and "d"
PassNames == {BucketBk, CtPlain, CtOther}

\* the batches one pass may call: more than a pass over the stores of
\* InitPass needs when every batch moves its marker forward
MaxPassCalls == 10

\* the store holds the three containers of the bucket with their objects
\* and, when the account is sharded, two shards of container c
InitPass ==
    /\ \E sharded \in BOOLEAN, load \in [PassNames -> 0..MaxCount] :
          Commit0(ApplyEvents(EmptyStore,
             <<Report(AccountA, BucketBk, load[BucketBk], BucketBk),
               Report(AccountA, CtPlain, load[CtPlain], BucketBk),
               Report(AccountA, CtOther, load[CtOther], BucketBk)>>
             \o (IF sharded
                 THEN <<Report(ShardsA, ShardC0, MaxCount, BucketBk),
                        Report(ShardsA, ShardC1, MaxCount, BucketBk)>>
                 ELSE <<>>), 0))
    /\ clock = 0
    /\ op = [kind |-> "init", target |-> EmptyStr, batch |-> 0, ev |-> NoEvent,
             status |-> "none", result |-> "none",
             tomb |-> FALSE, replay_of |-> "none", freed |-> 0,
                     freed_bucket |-> EmptyStr]
    /\ listing = NoListing
    /\ task = NoTask

\* refresh_bucket up to its first batch: the owner of the bucket is read
\* and the containers of the bucket are listed; without owner the call
\* returns at once
StartRefreshBucket(bucket_name, batch_size) ==
    /\ task.kind = "none"
    /\ task' = IF <<bucket_name, "account">> \notin DOMAIN b
               THEN [NoTask EXCEPT !.kind = "refresh_bucket", !.pc = "done",
                                   !.target = bucket_name]
               ELSE [NoTask EXCEPT
                       !.kind = "refresh_bucket",
                       !.target = bucket_name,
                       !.account = b[<<bucket_name, "account">>],
                       !.batch = batch_size,
                       !.containers =
                           _list_containers(Store, b[<<bucket_name, "account">>],
                                            bucket_name).names,
                       !.pc = IF _list_containers(Store,
                                     b[<<bucket_name, "account">>],
                                     bucket_name).names = <<>>
                              THEN "bucket" ELSE "shards"]
    /\ Commit(ReadTransaction(Store))
    /\ UNCHANGED <<clock, op, listing>>

\* what follows the loop over the sharded containers: the bucket batches
\* in refresh_bucket, _refresh_account in refresh_account
AfterShards(kind) == IF kind = "refresh_bucket" THEN "bucket" ELSE "account"

\* what the inner "while True" does with the value r of one call of
\* _refresh_sharded_ct: on None or on the marker it gave, it goes to the
\* next container, else it calls again with the marker returned
ShardBatchReturns(r) ==
    IF r.error
    THEN /\ task' = [task EXCEPT !.pc = "done", !.result = "Error",
                                 !.calls = @ + 1]
         /\ UNCHANGED StoreVars
    ELSE /\ Commit(r.st)
         /\ task' = [task EXCEPT
                       !.containers = IF r.marker \in {None, task.sharded_marker}
                                      THEN Tail(@) ELSE @,
                       !.sharded_marker = IF r.marker \in {None, task.sharded_marker}
                                          THEN @ ELSE r.marker,
                       !.pc = IF /\ r.marker \in {None, task.sharded_marker}
                                 /\ Tail(task.containers) = <<>>
                              THEN AfterShards(task.kind) ELSE "shards",
                       !.last = "shard",
                       !.given = task.sharded_marker,
                       !.returned = r.marker,
                       !.calls = @ + 1]

\* one call of _refresh_sharded_ct by the first loop of refresh_bucket and
\* of refresh_account
ShardBatch ==
    /\ task.kind \in {"refresh_bucket", "refresh_account"}
    /\ task.pc = "shards"
    /\ task.calls < MaxPassCalls
    /\ \E r \in {_refresh_sharded_ct(Store, task.account,
                       Head(task.containers), task.sharded_marker,
                       task.batch)} : ShardBatchReturns(r)
    /\ UNCHANGED <<clock, op, listing>>

\* what the second "while True" does with the value r of one call of
\* _refresh_bucket: it stops on None and calls again with any other marker
BucketBatchReturns(r) ==
    IF r.error
    THEN /\ task' = [task EXCEPT !.pc = "done", !.result = "Error",
                                 !.calls = @ + 1]
         /\ UNCHANGED StoreVars
    ELSE /\ Commit(r.st)
         /\ task' = [task EXCEPT
                       !.marker = r.marker,
                       !.pc = IF r.marker = None THEN "done" ELSE "bucket",
                       !.result = IF r.marker = None THEN "ok" ELSE @,
                       !.last = "bucket",
                       !.given = task.marker,
                       !.returned = r.marker,
                       !.calls = @ + 1]

\* one call of _refresh_bucket by the second loop of refresh_bucket
BucketBatch ==
    /\ task.kind = "refresh_bucket"
    /\ task.pc = "bucket"
    /\ task.calls < MaxPassCalls
    /\ IF <<task.target, "account">> \notin DOMAIN b
       THEN /\ task' = [task EXCEPT !.pc = "done", !.result = "Error",
                                    !.calls = @ + 1]
            /\ UNCHANGED StoreVars
       ELSE \E r \in {_refresh_bucket(Store, task.target, task.batch,
                                      task.marker)} : BucketBatchReturns(r)
    /\ UNCHANGED <<clock, op, listing>>

\* the pass has run at least one batch and has not run its last one
BetweenBatches == task.pc \in {"shards", "bucket"} /\ task.last # "none"

\* reports of new totals for the containers c and d, later than what the
\* store holds
PassEvents ==
    {[Report(AccountA, n, k, BucketBk) EXCEPT !.mtime = 2] :
        n \in {CtPlain, CtOther}, k \in 0..MaxCount}

NextPass ==
    \/ \E n \in 1..MaxBatch : StartRefreshBucket(BucketBk, n)
    \/ ShardBatch
    \/ BucketBatch
    \/ \E ev \in PassEvents : BetweenBatches /\ UpdateContainer(ev)

\* one refresh_bucket whose batches interleave with update_container calls
SpecPass == InitPass /\ [][NextPass]_vars

\* the markers a batch can be given or return
PassMarkers == {None} \cup PassNames \cup {ShardC0, ShardC1}

\* a batch called by one of the two "while True" loops has returned: the
\* loop variables hold what the loop made of the returned value, whatever
\* it is. ShardBatch and BucketBatch are the steps of this kind
BatchReturns ==
    /\ task.kind = "refresh_bucket"
    /\ task.pc \in {"shards", "bucket"}
    /\ task.calls < MaxPassCalls
    /\ task' \in [kind : {task.kind}, target : {task.target},
                  account : {task.account}, batch : {task.batch},
                  sum_objects : {task.sum_objects}, sum_bytes : {task.sum_bytes},
                  calls : {task.calls + 1},
                  pc : {"shards", "bucket", "done"},
                  containers : {task.containers,
                                SubSeq(task.containers, 2, Len(task.containers))},
                  sharded_marker : PassMarkers, marker : PassMarkers,
                  last : {"shard", "bucket"},
                  given : PassMarkers, returned : PassMarkers,
                  result : {"none", "ok", "Error"}]

\* the thread that runs refresh_bucket keeps running: while its loops have
\* a batch to call, the call is made and returns
FairPass == WF_task(BatchReturns)

SpecPassFair == InitPass /\ [][NextPass]_vars /\ FairPass

-----------------------------------------------------------------------------
(* A refresh of an account, step by step, among updates *)

\* the containers of account A: "c" and "d"
RaceNames == {CtPlain, CtOther}

\* the store holds the two containers with their objects and, when the
\* account is sharded, two shards of container c
InitRace ==
    /\ \E sharded \in BOOLEAN, load \in [RaceNames -> 0..MaxCount] :
          Commit0(ApplyEvents(EmptyStore,
             <<Report(AccountA, CtPlain, load[CtPlain], EmptyStr),
               Report(AccountA, CtOther, load[CtOther], EmptyStr)>>
             \o (IF sharded
                 THEN <<Report(ShardsA, ShardC0, MaxCount, EmptyStr),
                        Report(ShardsA, ShardC1, MaxCount, EmptyStr)>>
                 ELSE <<>>), 0))
    /\ clock = 0
    /\ op = [kind |-> "init", target |-> EmptyStr, batch |-> 0, ev |-> NoEvent,
             status |-> "none", result |-> "none",
             tomb |-> FALSE, replay_of |-> "none", freed |-> 0,
                     freed_bucket |-> EmptyStr]
    /\ listing = NoListing
    /\ task = NoTask

\* refresh_account up to its first batch: the sharded containers of the
\* account are listed
StartRefreshAccount(account_id, batch_size) ==
    /\ task.kind = "none"
    /\ task' = IF account_id = EmptyStr
               THEN [NoTask EXCEPT !.kind = "refresh_account", !.pc = "done",
                                   !.result = "BadRequest"]
               ELSE [NoTask EXCEPT
                       !.kind = "refresh_account",
                       !.target = account_id,
                       !.account = account_id,
                       !.batch = batch_size,
                       !.containers =
                           _list_containers(Store, account_id, None).names,
                       !.pc = IF _list_containers(Store, account_id,
                                                  None).names = <<>>
                              THEN "account" ELSE "shards"]
    /\ Commit(ReadTransaction(Store))
    /\ UNCHANGED <<clock, op, listing>>

\* _refresh_account, first statement: _is_element reads the listing flag
\* from self.db, in a transaction of its own
RefreshAccountExists ==
    /\ task.kind = "refresh_account"
    /\ task.pc = "account"
    /\ task' = IF task.account \notin accts
               THEN [task EXCEPT !.pc = "done", !.result = "NotFound"]
               ELSE [task EXCEPT !.pc = "scan"]
    /\ Commit(ReadTransaction(Store))
    /\ UNCHANGED <<clock, op, listing>>

\* _refresh_account, the loop over tr.snapshot.get_range: the sums of what
\* the rows hold at the read version of the transaction
RefreshAccountScan ==
    /\ task.kind = "refresh_account"
    /\ task.pc = "scan"
    /\ task' = [task EXCEPT
                  !.sum_bytes = SumField(Store, task.account,
                                    CtNames(Store, task.account), "bytes"),
                  !.sum_objects = SumField(Store, task.account,
                                    CtNames(Store, task.account), "objects"),
                  !.pc = "write"]
    /\ Commit(ReadTransaction(Store))
    /\ UNCHANGED <<clock, op, listing>>

\* _refresh_account, the two assignments and the commit: the transaction
\* has read through tr.snapshot only, so no commit made since its read
\* version conflicts with it, and its two keys are set in the store as
\* it is then
RefreshAccountCommit ==
    /\ task.kind = "refresh_account"
    /\ task.pc = "write"
    /\ IF ~PackOK(task.sum_bytes) \/ ~PackOK(task.sum_objects)
       THEN /\ task' = [task EXCEPT !.pc = "done", !.result = "Error"]
            /\ UNCHANGED StoreVars
       ELSE /\ task' = [task EXCEPT !.pc = "done", !.result = "ok"]
            /\ Commit([Store EXCEPT !.acct =
                         Put(Put(@, <<task.account, "bytes">>,
                                 Pack(task.sum_bytes)),
                             <<task.account, "objects">>,
                             Pack(task.sum_objects))])
    /\ UNCHANGED <<clock, op, listing>>

\* the refresh has started
RefreshRuns == task.kind = "refresh_account"

\* reports of new totals for the containers c and d, later than what the
\* store holds
RaceEvents ==
    {[Report(AccountA, n, k, EmptyStr) EXCEPT !.mtime = 2] :
        n \in RaceNames, k \in 0..MaxCount}

NextRace ==
    \/ \E n \in 1..MaxBatch : StartRefreshAccount(AccountA, n)
    \/ ShardBatch
    \/ RefreshAccountExists
    \/ RefreshAccountScan
    \/ RefreshAccountCommit
    \/ \E ev \in RaceEvents : RefreshRuns /\ UpdateContainer(ev)

\* one refresh_account whose transactions interleave with update_container
\* calls
SpecRace == InitRace /\ [][NextRace]_vars

-----------------------------------------------------------------------------
(* delete_account, step by step, among updates *)

\* account A has been created, and holds container d or no container
InitDelete ==
    /\ \E held \in BOOLEAN :
          Commit0(ApplyEvents(create_account(EmptyStore, AccountA, 0).st,
                     IF held THEN <<Report(AccountA, CtOther, 1, EmptyStr)>>
                     ELSE <<>>, 0))
    /\ clock = 0
    /\ op = [kind |-> "init", target |-> EmptyStr, batch |-> 0, ev |-> NoEvent,
             status |-> "none", result |-> "none",
             tomb |-> FALSE, replay_of |-> "none", freed |-> 0,
                     freed_bucket |-> EmptyStr]
    /\ listing = NoListing
    /\ task = NoTask

\* delete_account up to its scan: _val_element reads the 'id' key of the
\* account; None is returned for no account id and for an unknown account
DeleteAccountId(req_account_id) ==
    /\ task.kind = "none"
    /\ task' = IF \/ req_account_id = EmptyStr
                  \/ <<req_account_id, "id">> \notin DOMAIN acct
               THEN [NoTask EXCEPT !.kind = "delete_account", !.pc = "done",
                                   !.target = req_account_id]
               ELSE [NoTask EXCEPT !.kind = "delete_account", !.pc = "scan",
                                   !.target = req_account_id,
                                   !.account = acct[<<req_account_id, "id">>]]
    /\ Commit(ReadTransaction(Store))
    /\ UNCHANGED <<clock, op, listing>>

\* delete_account, the loop over self.db.get_range: False is returned when
\* the account has a container key
DeleteAccountScan ==
    /\ task.kind = "delete_account"
    /\ task.pc = "scan"
    /\ task' = IF CtNames(Store, task.account) # {}
               THEN [task EXCEPT !.pc = "done", !.result = "not_empty"]
               ELSE [task EXCEPT !.pc = "clear"]
    /\ Commit(ReadTransaction(Store))
    /\ UNCHANGED <<clock, op, listing>>

\* delete_account, the call of _delete_account: a transaction that clears
\* four ranges and reads nothing
DeleteAccountClear ==
    /\ task.kind = "delete_account"
    /\ task.pc = "clear"
    /\ task' = [task EXCEPT !.pc = "done", !.result = "deleted"]
    /\ Commit(_delete_account(Store, task.account))
    /\ UNCHANGED <<clock, op, listing>>

\* reports that create or update the containers c and d of account A
DeleteEvents ==
    {[Report(AccountA, n, k, EmptyStr) EXCEPT !.mtime = t] :
        n \in RaceNames, k \in 0..MaxCount, t \in 1..MaxTime}

NextDelete ==
    \/ DeleteAccountId(AccountA)
    \/ DeleteAccountScan
    \/ DeleteAccountClear
    \/ \E ev \in DeleteEvents : UpdateContainer(ev)

\* one delete_account whose transactions interleave with update_container
\* calls
SpecDelete == InitDelete /\ [][NextDelete]_vars

-----------------------------------------------------------------------------
(* The transaction of update_container among concurrent writers *)

\* what one run of the transaction function and its commit can answer: the
\* commit succeeds, it conflicts with a transaction committed meanwhile
\* (not_committed, which on_error retries), or the store refuses it with an
\* error that on_error raises again
AttemptOutcomes == {"committed", "not_committed", "transaction_too_large"}

\* the errors after which on_error resets the transaction for another run
Retryable(code) == code = "not_committed"

\* catch_service_errors: the error the caller receives for an exception
catch_service_errors(exc) ==
    IF exc \in {"FDBError", "ValueError"} THEN "ServiceBusy" ELSE exc

\* the record of a call of update_container
BusyOp(ev, st, res) ==
    [kind |-> "update_container", target |-> ev.account, batch |-> 0, ev |-> ev,
     status |-> st, result |-> res, tomb |-> FALSE, replay_of |-> "none",
     freed |-> 0, freed_bucket |-> EmptyStr]

\* a call is between its first run and its return
InFlight == op.status \in {"running", "on_error"}

\* events on container c of account A, and one that lacks the account id
BusyEvents ==
    {f \in EventsOver(Accounts, {CtPlain}, {EmptyStr}) :
        f.bytes = ByteUnit * f.objects}
    \cup {[Report(AccountA, CtPlain, 1, EmptyStr) EXCEPT !.account = EmptyStr]}

\* update_container up to the call of _update_container: the arguments are
\* checked and the clock is read once, before the transaction starts
CallUpdateContainer(ev) ==
    /\ ~InFlight
    /\ clock < MaxOps
    /\ op' = IF ev.account = EmptyStr \/ ev.cname = EmptyStr
             THEN BusyOp(ev, "bad_request", catch_service_errors("BadRequest"))
             ELSE BusyOp(ev, "running", "none")
    /\ clock' = clock + 1
    /\ UNCHANGED <<StoreVars, listing, task>>

\* one run of _update_container inside the loop of fdb.transactional: an
\* exception of the function leaves the loop, a commit ends the call with the
\* status of the function, a store error goes to on_error
Attempt(outcome) ==
    /\ op.status = "running"
    /\ LET r == update_container(Store, op.ev, clock)
       IN  IF r.status = "struct_error"
           THEN /\ op' = BusyOp(op.ev, r.status, catch_service_errors(r.result))
                /\ UNCHANGED StoreVars
           ELSE IF outcome = "committed"
           THEN /\ Commit(r.st)
                /\ op' = BusyOp(op.ev, r.status, catch_service_errors(r.result))
           ELSE /\ op' = BusyOp(op.ev, "on_error", outcome)
                /\ UNCHANGED StoreVars
    /\ UNCHANGED <<clock, listing, task>>

\* tr.on_error(code): a retryable error resets the transaction and the loop
\* runs the function again, no option of the database limits how often; any
\* other error is raised and leaves update_container as ServiceBusy
OnError ==
    /\ op.status = "on_error"
    /\ op' = IF Retryable(op.result)
             THEN BusyOp(op.ev, "running", "none")
             ELSE BusyOp(op.ev, "fdb_error", catch_service_errors("FDBError"))
    /\ UNCHANGED <<StoreVars, clock, listing, task>>

NextBusy ==
    \/ \E ev \in BusyEvents : CallUpdateContainer(ev)
    \/ \E outcome \in AttemptOutcomes : Attempt(outcome)
    \/ OnError

\* the caller's thread keeps running: every run of the transaction function
\* ends, with one outcome or another, and every wait of on_error ends
FairBusy ==
    /\ WF_vars(\E outcome \in AttemptOutcomes : Attempt(outcome))
    /\ WF_vars(OnError)

\* calls of update_container whose transaction can fail at every run
SpecBusy == Init /\ [][NextBusy]_vars /\ FairBusy

-----------------------------------------------------------------------------
(* A bucket, its root container and another of its containers *)

\* events on the container bk of account A, reported empty or full, with
\* or without the bucket bk, and reports of its container c for the
\* bucket bk
RootEvents ==
    {f \in EventsOver(Accounts, {BucketBk, CtPlain}, {EmptyStr, BucketBk}) :
        /\ f.objects \in {0, MaxCount}
        /\ f.bytes = ByteUnit * f.objects
        /\ f.cname = CtPlain => (f.dtime = 0 /\ f.bucket = BucketBk)}

NextRoot == \E ev \in RootEvents : UpdateContainer(ev)

SpecRoot == Init /\ [][NextRoot]_vars

-----------------------------------------------------------------------------
(* A bucket reported under its account and under the account of its shards *)

\* events on the container bk of account A and of account .shards_A
OwnerEvents ==
    {f \in EventsOver({AccountA, ShardsA}, {BucketBk}, {EmptyStr, BucketBk}) :
        f.bytes = ByteUnit * f.objects}

NextOwner == \E ev \in OwnerEvents : UpdateContainer(ev)

SpecOwner == Init /\ [][NextOwner]_vars

-----------------------------------------------------------------------------
(* A container of multipart segments next to a plain container *)

\* events on the containers c and c+segments of account A, reported with
\* or without the bucket bk
SegmentEvents ==
    {f \in EventsOver(Accounts, {CtPlain, CtSegments}, {EmptyStr, BucketBk}) :
        f.bytes = ByteUnit * f.objects}

NextSegments ==
    \/ \E ev \in SegmentEvents : UpdateContainer(ev)
    \/ \E n \in 1..MaxBatch : RefreshBucket(BucketBk, n)
    \/ \E n \in 1..MaxBatch : RefreshAccount(AccountA, n)

SpecSegments == Init /\ [][NextSegments]_vars

-----------------------------------------------------------------------------
(* Two buckets of account A and a bucket of the account named like one of them *)

\* events on the root containers of the buckets bk and zz of account A,
\* and reports of the root container of bucket c of the account named "bk"
FrameEvents ==
    {f \in EventsOver({AccountA}, {BucketBk, BucketZz}, {BucketBk, BucketZz}) :
        /\ f.bucket = f.cname
        /\ f.objects \in {0, MaxCount}
        /\ f.bytes = ByteUnit * f.objects}
    \cup {f \in EventsOver({BucketBk}, {CtPlain}, {CtPlain}) :
             /\ f.dtime = 0
             /\ f.objects \in {0, MaxCount}
             /\ f.bytes = ByteUnit * f.objects}

NextFrame == \E ev \in FrameEvents : UpdateContainer(ev)

SpecFrame == Init /\ [][NextFrame]_vars

-----------------------------------------------------------------------------
(* Updates, flushes and refreshes of an account that has a shard *)

\* events on container c of account A, reported with or without the bucket
\* bk, and reports of its shard c-<hash>-<timestamp>-0 in account .shards_A
RowEvents ==
    {f \in EventsOver({AccountA}, {CtPlain}, {EmptyStr, BucketBk}) :
        /\ f.objects \in {0, MaxCount}
        /\ f.bytes = ByteUnit * f.objects}
    \cup {Report(ShardsA, ShardC0, k, EmptyStr) : k \in {0, MaxCount}}

NextRows ==
    \/ \E ev \in RowEvents : UpdateContainer(ev)
    \/ FlushAccount(AccountA)
    \/ \E n \in 1..MaxBatch : RefreshAccount(AccountA, n)
    \/ \E n \in 1..MaxBatch : RefreshBucket(BucketBk, n)

SpecRows == Init /\ [][NextRows]_vars

-----------------------------------------------------------------------------
(* Properties of the mutation engine *)

\* the live rows of an account: present and not tombstoned
LiveNames(a) ==
    {n \in CtNames(Store, a) :
        /\ <<a, n, "name">> \in DOMAIN ct
        /\ ct[<<a, n, "dtime">>] < ct[<<a, n, "mtime">>]}

RECURSIVE LiveTotal(_, _, _)
\* the total of a counter field over a set of rows of account a
LiveTotal(a, names, field) ==
    IF names = {} THEN 0
    ELSE LET n == CHOOSE x \in names : TRUE
         IN  ct[<<a, n, field>>] + LiveTotal(a, names \ {n}, field)

\* the container has been deleted: no row, and a pending-delete marker
Tombstoned(a, c) ==
    <<a, c>> \in DOMAIN ctdel /\ <<a, c, "name">> \notin DOMAIN ct

\* C1: applying an accepted update_container event a second time, right
\* after the first, is rejected and leaves every key of the store (row,
\* pending-delete marker, account and bucket counters) as the first
\* application left it.  The rejection is Conflict (no_update_needed); the
\* NotFound that step 3 of the protocol gives to an event older than the
\* deletion marker is counted as a rejection too.
C1_SecondApplicationRejected ==
    [][(/\ op.kind = "update_container"
        /\ op.result = "ok"
        /\ op'.kind = "update_container"
        /\ op'.ev = op.ev)
       => (/\ \/ op'.result = "Conflict"
              \/ op'.result = "NotFound" /\ op'.ev.mtime < op'.ev.dtime
           /\ StoreVars' = StoreVars)]_vars

\* C3: when refresh_account has completed, the counters that info_account
\* reports are the sums of the object and byte counts of the live containers
C3_RefreshConserves ==
    (op.kind = "refresh_account" /\ op.result = "ok")
    => /\ info_account(Store, op.target).objects
            = LiveTotal(op.target, LiveNames(op.target), "objects")
       /\ info_account(Store, op.target).bytes
            = LiveTotal(op.target, LiveNames(op.target), "bytes")

\* a refresh that ran over a live container next to a deleted one
C3_Witness ==
    /\ op.kind = "refresh_account" /\ op.result = "ok"
    /\ \E c \in LiveNames(AccountA) : ct[<<AccountA, c, "objects">>] > 0
    /\ \E c \in {CtPlain, CtOther} : Tombstoned(AccountA, c)

\* C4: an update_container that tombstones a live container takes exactly
\* the stored counts of that container off the account counters, and
\* applying a deletion event to a container that is already tombstoned
\* leaves the account counters as they are
C4_DeletionOnce ==
    [][op'.kind = "update_container" =>
        LET a == op'.ev.account
            c == op'.ev.cname
        IN  /\ (<<a, c, "name">> \in DOMAIN ct /\ <<a, c, "name">> \notin DOMAIN ct')
               => /\ acct'[<<a, "objects">>]
                       = (acct[<<a, "objects">>] - ct[<<a, c, "objects">>]) % WordMod
                  /\ acct'[<<a, "bytes">>]
                       = (acct[<<a, "bytes">>] - ct[<<a, c, "bytes">>]) % WordMod
            /\ (/\ Tombstoned(a, c)
                /\ a \in accts
                /\ op'.ev.dtime >= op'.ev.mtime)
               => /\ acct'[<<a, "objects">>] = acct[<<a, "objects">>]
                  /\ acct'[<<a, "bytes">>] = acct[<<a, "bytes">>]]_vars

\* the deletion event of a live container with counts, applied once more
C4_Witness ==
    /\ op.kind = "update_container"
    /\ op.replay_of = "tombstone"
    /\ op.ev.dtime >= op.ev.mtime
    /\ op.result = "ok"
    /\ op.freed > 0
    /\ Tombstoned(op.ev.account, op.ev.cname)
    /\ acct[<<op.ev.account, "objects">>] = 0

\* C5: tombstoning a live container of bucket bk (not its root container)
\* takes the container's stored counts off the bucket counters (the object
\* counter is left alone for a +segments container), and applying the same
\* deletion event again, with or without the bucket name, leaves the
\* bucket counters as they are
C5_BucketDeletionOnce ==
    [][op'.kind = "update_container" =>
        LET a == op'.ev.account
            c == op'.ev.cname
            bk == BucketBk
            objs == IF Contains(c, SegmentsTag) THEN 0 ELSE ct[<<a, c, "objects">>]
        IN  /\ (/\ <<a, c, "name">> \in DOMAIN ct
                /\ <<a, c, "name">> \notin DOMAIN ct'
                /\ <<a, c, "bucket">> \in DOMAIN ct
                /\ ct[<<a, c, "bucket">>] = bk
                /\ c # bk
                /\ op'.ev.bucket \in {EmptyStr, bk})
               => /\ b'[<<bk, "objects">>] = (b[<<bk, "objects">>] - objs) % WordMod
                  /\ b'[<<bk, "bytes">>]
                       = (b[<<bk, "bytes">>] - ct[<<a, c, "bytes">>]) % WordMod
            /\ (/\ op'.replay_of = "tombstone"
                /\ op'.freed_bucket = bk
                /\ c # bk
                /\ op'.ev.bucket \in {EmptyStr, bk})
               => /\ b'[<<bk, "objects">>] = b[<<bk, "objects">>]
                  /\ b'[<<bk, "bytes">>] = b[<<bk, "bytes">>]]_vars

\* C6: while a container is tombstoned with deletion time D, an
\* update_container event for it with mtime < D is answered NotFound and
\* the container stays out of the rows and out of the listing index, the
\* marker staying at D
C6_NoResurrection ==
    [][op'.kind = "update_container" =>
        LET a == op'.ev.account
            c == op'.ev.cname
        IN  (Tombstoned(a, c) /\ op'.ev.mtime < ctdel[<<a, c>>])
            => /\ op'.result = "NotFound"
               /\ ct' = ct
               /\ cts' = cts
               /\ <<a, c>> \notin cts'
               /\ ctdel' = ctdel]_vars

\* a creation event that arrived after the deletion that supersedes it
C6_Witness ==
    /\ op.kind = "update_container"
    /\ op.result = "NotFound"
    /\ op.ev.mtime >= 1 /\ op.ev.dtime = 0
    /\ Tombstoned(op.ev.account, op.ev.cname)
    /\ op.ev.mtime < ctdel[<<op.ev.account, op.ev.cname>>]

\* C9: with no refresh involved, the counters that info_account reports
\* are the sums of the object and byte counts of the live containers
C9_AccountTracksLive ==
    \A a \in accts :
        /\ info_account(Store, a).objects = LiveTotal(a, LiveNames(a), "objects")
        /\ info_account(Store, a).bytes = LiveTotal(a, LiveNames(a), "bytes")

\* an update with counts followed by the deletion of that container,
\* another container still holding counts
C9_Witness ==
    /\ op.kind = "update_container" /\ op.tomb
    /\ \E c \in LiveNames(AccountA) :
          /\ ct[<<AccountA, c, "objects">>] = MaxCount
          /\ ct[<<AccountA, c, "bytes">>] = ByteUnit * MaxCount
    /\ info_account(Store, AccountA).objects = MaxCount

Observed(S, a, c, bk) ==
    [row |-> IF RowPresent(S, a, c)
             THEN <<S.ct[<<a, c, "mtime">>], S.ct[<<a, c, "objects">>],
                    S.ct[<<a, c, "bytes">>]>>
             ELSE None,
     account |-> IF a \in S.accts
                 THEN <<S.acct[<<a, "objects">>], S.acct[<<a, "bytes">>]>>
                 ELSE None,
     bucket |-> <<IF <<bk, "objects">> \in DOMAIN S.b
                  THEN S.b[<<bk, "objects">>] ELSE None,
                  IF <<bk, "bytes">> \in DOMAIN S.b
                  THEN S.b[<<bk, "bytes">>] ELSE None>>]

\* the store after e1 then e2
AfterBoth(S, e1, e2, now) ==
    update_container(update_container(S, e1, now + 1).st, e2, now + 2).st

\* C2: two events on the same container that report no deletion, carry the
\* same bucket name and have mtime(e1) < mtime(e2) leave the same row, the
\* same account counters and the same bucket counters whether e1 or e2 is
\* applied first
C2_OrderIndependent ==
    \A e1, e2 \in BucketEvents :
        (/\ e1.account = e2.account /\ e1.cname = e2.cname
         /\ e1.bucket = e2.bucket
         /\ e1.dtime = 0 /\ e2.dtime = 0
         /\ e1.mtime < e2.mtime)
        => Observed(AfterBoth(Store, e1, e2, clock), e1.account, e1.cname, BucketBk)
           = Observed(AfterBoth(Store, e2, e1, clock), e1.account, e1.cname, BucketBk)

\* events on two containers of account A, both reported for bucket bk
PairEvents == EventsOver(Accounts, {CtPlain, CtOther}, {BucketBk})

\* e1 then e2 are both accepted
BothAccepted(S, e1, e2, now) ==
    /\ update_container(S, e1, now + 1).result = "ok"
    /\ update_container(update_container(S, e1, now + 1).st, e2, now + 2).result = "ok"

\* C21: two update_container events on two different containers of the
\* same account and the same bucket, both accepted in either order, leave
\* the same account counters and the same bucket counters whichever of
\* the two commits first
C21_DistinctContainersCommute ==
    \A e1, e2 \in PairEvents :
        (/\ e1.account = e2.account /\ e1.cname # e2.cname
         /\ e1.bucket = e2.bucket
         /\ BothAccepted(Store, e1, e2, clock)
         /\ BothAccepted(Store, e2, e1, clock))
        => /\ Observed(AfterBoth(Store, e1, e2, clock), e1.account, e1.cname, BucketBk).account
                = Observed(AfterBoth(Store, e2, e1, clock), e1.account, e1.cname, BucketBk).account
           /\ Observed(AfterBoth(Store, e1, e2, clock), e1.account, e1.cname, BucketBk).bucket
                = Observed(AfterBoth(Store, e2, e1, clock), e1.account, e1.cname, BucketBk).bucket

\* the value of a bucket counter, zero when the key is absent
BucketValue(f, bk, field) ==
    IF <<bk, field>> \in DOMAIN f THEN f[<<bk, field>>] ELSE 0

\* C20: when an accepted update_container that deletes nothing registers a
\* container to bucket bk for the first time, the byte counter of bk
\* afterwards is its previous value (zero if absent) plus the whole new
\* byte total of the container, and its object counter the previous value
\* plus the whole new object total (plus zero for a +segments container)
C20_FirstAssociationCountsAll ==
    [][(/\ op'.kind = "update_container"
        /\ op'.result = "ok"
        /\ op'.ev.bucket # EmptyStr
        /\ <<op'.ev.account, op'.ev.cname, "bucket">> \notin DOMAIN ct
        /\ <<op'.ev.account, op'.ev.cname, "bucket">> \in DOMAIN ct')
       => LET a == op'.ev.account
              c == op'.ev.cname
              bk == op'.ev.bucket
              objs == IF Contains(c, SegmentsTag) THEN 0
                      ELSE ct'[<<a, c, "objects">>]
          IN  /\ b'[<<bk, "bytes">>]
                   = (BucketValue(b, bk, "bytes") + ct'[<<a, c, "bytes">>]) % WordMod
              /\ b'[<<bk, "objects">>]
                   = (BucketValue(b, bk, "objects") + objs) % WordMod]_vars

\* the store after the step
StoreNext ==
    [accts |-> accts', acct |-> acct', cts |-> cts', ct |-> ct',
     ctdel |-> ctdel', bs |-> bs', b |-> b', meta |-> meta']

\* the bucket has a key in bucket:
HasBucketRow(S, bk) == \E k \in DOMAIN S.b : k[1] = bk

C24_BucketRowFollowsRoot ==
    /\ HasBucketRow(Store, BucketBk)
         <=> (<<AccountA, BucketBk>> \in bs /\ <<BucketBk>> \in bs)
    /\ HasBucketRow(Store, BucketBk)
         <=> /\ BucketBk \in LiveNames(AccountA)
             /\ <<AccountA, BucketBk, "bucket">> \in DOMAIN ct
             /\ ct[<<AccountA, BucketBk, "bucket">>] = BucketBk

\* the keys of bucket: that belong to bucket x, with their values
BucketRow(S, x) == [k \in {y \in DOMAIN S.b : y[1] = x} |-> S.b[k]]

\* the keys of buckets: that list bucket x: the global entry and the entry
\* under each account
BucketListed(S, x) == {k \in S.bs : k = <<x>> \/ (Len(k) = 2 /\ k[2] = x)}

\* C39: when update_container tombstones the root container of a bucket,
\* the row, the global listing entry and the account-scoped listing
\* entries of every other bucket are unchanged, in every account, the
\* account whose id is the name of the deleted bucket included
C39_RootDeletionFrame ==
    [][(/\ op'.kind = "update_container"
        /\ op'.tomb
        /\ op'.ev.bucket = op'.ev.cname)
       => \A x \in {BucketBk, BucketZz, CtPlain} \ {op'.ev.cname} :
             /\ BucketRow(StoreNext, x) = BucketRow(Store, x)
             /\ BucketListed(StoreNext, x) = BucketListed(Store, x)]_vars

\* C27: the owner recorded on the row of bucket bk is never an account
\* whose name starts with .shards_, and an update_container issued under
\* a .shards_ account leaves the recorded owner as it was
C27_OwnerNeverShard ==
    /\ [](<<BucketBk, "account">> \in DOMAIN b
            => ~StartsWith(b[<<BucketBk, "account">>], ShardsPrefix))
    /\ [][(/\ op'.kind = "update_container"
           /\ StartsWith(op'.ev.account, ShardsPrefix))
          => /\ <<BucketBk, "account">> \in DOMAIN b
                  <=> <<BucketBk, "account">> \in DOMAIN b'
             /\ <<BucketBk, "account">> \in DOMAIN b
                  => b'[<<BucketBk, "account">>] = b[<<BucketBk, "account">>]]_vars

\* the number a stored word stands for in two's complement
AsSigned(v) == IF v >= WordMod \div 2 THEN v - WordMod ELSE v

\* C30: a stored counter is read as the signed value that was written or
\* accumulated: info_account reports the account counters, and
\* get_bucket_info and list_buckets the bucket counters, as the number the
\* stored word stands for in two's complement, a negative one included
C30_SignedCounters ==
    /\ \A a \in accts :
          /\ info_account(Store, a).objects = AsSigned(acct[<<a, "objects">>])
          /\ info_account(Store, a).bytes = AsSigned(acct[<<a, "bytes">>])
    /\ \A f \in {"objects", "bytes"} :
          <<BucketBk, f>> \in DOMAIN b
          => /\ get_bucket_info(Store, BucketBk)[f] = AsSigned(b[<<BucketBk, f>>])
             /\ BucketEntry(Store, BucketBk)[f] = AsSigned(b[<<BucketBk, f>>])

\* what update_container finds stored for the container of ev: mtime and
\* dtime of the row ("0" without a row) and the pending-delete marker
StoredTimes(ev) ==
    LET a == ev.account
        c == ev.cname
        present == <<a, c, "name">> \in DOMAIN ct
    IN  [present |-> present,
         mtime |-> IF present THEN ct[<<a, c, "mtime">>] ELSE 0,
         dtime |-> IF present THEN ct[<<a, c, "dtime">>] ELSE 0,
         marker |-> IF <<a, c>> \in DOMAIN ctdel THEN ctdel[<<a, c>>] ELSE 0]

\* the answer to ev as the four error rules state it, every other event
\* succeeding
ClaimedOutcome(ev) ==
    LET t == StoredTimes(ev)
    IN  IF ev.account = EmptyStr \/ ev.cname = EmptyStr THEN "BadRequest"
        ELSE IF ev.account \notin accts /\ ~ev.autocreate_account THEN "NotFound"
        ELSE IF ~ev.autocreate_container /\ ~t.present THEN "NotFound"
        ELSE IF ev.mtime <= t.mtime /\ ev.dtime <= t.dtime THEN "Conflict"
        ELSE "ok"

\* the answer to ev with the two rules of the protocol that the four
\* leave out: NotFound for an event older than the pending-delete marker
\* of a container without row, Conflict for an event that advances dtime
\* alone without reaching the stored mtime
ProtocolOutcome(ev) ==
    LET t == StoredTimes(ev)
    IN  IF ev.account = EmptyStr \/ ev.cname = EmptyStr THEN "BadRequest"
        ELSE IF ev.account \notin accts /\ ~ev.autocreate_account THEN "NotFound"
        ELSE IF ~ev.autocreate_container /\ ~t.present THEN "NotFound"
        ELSE IF ~t.present /\ ev.mtime < t.marker THEN "NotFound"
        ELSE IF ev.mtime <= t.mtime /\ ev.dtime <= t.dtime THEN "Conflict"
        ELSE IF ev.mtime <= t.mtime /\ ev.dtime < t.mtime THEN "Conflict"
        ELSE "ok"

\* C14 as stated: update_container fails with BadRequest when the account
\* id or the container name is empty, with NotFound when the account is
\* absent and autocreate_account is false, with NotFound when
\* autocreate_container is false and the row does not exist, with Conflict
\* when new_mtime <= stored mtime and new_dtime <= stored dtime, and
\* succeeds otherwise
C14_ErrorOutcomes ==
    [][op'.kind = "update_container"
       => op'.result = ClaimedOutcome(op'.ev)]_vars

\* C14 amended: the same, and besides NotFound when the container has no
\* row and its pending-delete marker is later than new_mtime, and Conflict
\* when new_mtime <= stored mtime and new_dtime, although later than the
\* stored dtime, is earlier than the stored mtime; otherwise the call
\* succeeds
C14_ErrorOutcomesAmended ==
    [][op'.kind = "update_container"
       => op'.result = ProtocolOutcome(op'.ev)]_vars

\* an event refused with Conflict although its dtime is later than the
\* stored one, on a container that was reported with autocreation off
C14_Witness ==
    /\ op.kind = "update_container" /\ op.result = "Conflict"
    /\ ~op.ev.autocreate_container /\ ~op.ev.autocreate_account
    /\ RowPresent(Store, op.ev.account, op.ev.cname)
    /\ op.ev.dtime > ct[<<op.ev.account, op.ev.cname, "dtime">>]
    /\ op.ev.dtime < ct[<<op.ev.account, op.ev.cname, "mtime">>]

\* C32: an update_container that fails with NotFound (no_account or
\* no_container) or with Conflict (no_update_needed) leaves every key of
\* the store as it was, whatever autocreate_account and
\* autocreate_container are; in particular it creates no account
C32_RejectedChangesNothing ==
    [][(/\ op'.kind = "update_container"
        /\ op'.result \in {"NotFound", "Conflict"})
       => StoreNext = Store]_vars

\* C38 as stated: over update_container operations the deletion time in
\* the pending-delete marker of a container never decreases, and once an
\* event has been accepted for the container the marker, when there is
\* one, is at or after the mtime of that event
C38_MarkerForward ==
    [][op'.kind = "update_container" =>
        LET k == <<op'.ev.account, op'.ev.cname>>
        IN  /\ k \in DOMAIN ctdel
                 => k \in DOMAIN ctdel' /\ ctdel'[k] >= ctdel[k]
            /\ (op'.result = "ok" /\ k \in DOMAIN ctdel')
                 => ctdel'[k] >= op'.ev.mtime]_vars

\* C38 amended: the marker never decreases, and whenever an accepted
\* event leaves the container without a row the marker is at or after the
\* mtime of the event and the mtime the row held; a marker left behind by
\* an earlier deletion may be older than the events accepted since the
\* container was created again
C38_MarkerForwardAmended ==
    [][op'.kind = "update_container" =>
        LET a == op'.ev.account
            c == op'.ev.cname
        IN  /\ <<a, c>> \in DOMAIN ctdel
                 => <<a, c>> \in DOMAIN ctdel' /\ ctdel'[<<a, c>>] >= ctdel[<<a, c>>]
            /\ (/\ op'.result = "ok"
                /\ <<a, c>> \in DOMAIN ctdel'
                /\ ~RowPresent(StoreNext, a, c))
                 => /\ ctdel'[<<a, c>>] >= op'.ev.mtime
                    /\ RowPresent(Store, a, c)
                         => ctdel'[<<a, c>>] >= ct[<<a, c, "mtime">>]]_vars

\* a live container has just been deleted by the last event of the
\* behaviour, which carries an mtime later than 1 and a dtime at or after it
C38_Witness ==
    /\ op.kind = "update_container" /\ op.result = "ok" /\ op.tomb
    /\ clock = MaxOps
    /\ op.ev.mtime > 1
    /\ ctdel[<<op.ev.account, op.ev.cname>>] = op.ev.dtime
    /\ op.ev.dtime >= op.ev.mtime

-----------------------------------------------------------------------------
(* Properties of the account operations *)

\* the keys of account a in the account, metadata and containers: subspaces
AccountKeys(S, a) ==
    [acct |-> {k \in DOMAIN S.acct : k[1] = a},
     meta |-> {k \in DOMAIN S.meta : k[1] = a},
     cts |-> {k \in S.cts : k[1] = a}]

\* C12: create_account on an account that exists answers already-exists
\* without an error and changes no key (existence flag, counters, creation
\* time, metadata, containers); on an absent account it creates the
\* account with both counters at zero
C12_CreateIdempotent ==
    [][(op'.kind = "create_account" /\ op'.target # EmptyStr)
       => IF op'.target \in accts
          THEN op'.result = "none" /\ StoreVars' = StoreVars
          ELSE /\ op'.result = "created"
               /\ op'.target \in accts'
               /\ info_account(StoreNext, op'.target).objects = 0
               /\ info_account(StoreNext, op'.target).bytes = 0]_vars

\* create_account called on an account that holds metadata and a container
\* with objects
C12_Witness ==
    /\ op.kind = "create_account" /\ op.result = "none"
    /\ op.target \in accts
    /\ AccountKeys(Store, op.target).meta # {}
    /\ info_account(Store, op.target).objects > 0
    /\ info_account(Store, op.target).containers = 1

\* C13: delete_account on an account that owns a container row answers
\* not-empty and changes no key; on an account that exists and owns no row
\* it removes the existence flag, the counters, the metadata and the
\* containers: index of the account, and info_account and list_accounts
\* no longer report it; on an account that does not exist it answers
\* not-found and changes no key
C13_DeleteRefusesNonEmpty ==
    [][(op'.kind = "delete_account" /\ op'.target # EmptyStr)
       => LET a == op'.target
          IN  IF CtNames(Store, a) # {}
              THEN op'.result = "not_empty" /\ StoreVars' = StoreVars
              ELSE IF a \in accts
              THEN /\ op'.result = "deleted"
                   /\ a \notin accts'
                   /\ AccountKeys(StoreNext, a)
                        = [acct |-> {}, meta |-> {}, cts |-> {}]
                   /\ info_account(StoreNext, a) = None
                   /\ get_account_metadata(StoreNext, a) = None
                   /\ \A i \in 1..Len(list_accounts(StoreNext)) :
                         list_accounts(StoreNext)[i] # a
              ELSE op'.result = "none" /\ StoreVars' = StoreVars]_vars

\* an account deleted after its only container was deleted, the other
\* account staying
C13_Witness ==
    /\ op.kind = "delete_account" /\ op.result = "deleted"
    /\ op.target = AccountA
    /\ <<AccountA, CtPlain>> \in DOMAIN ctdel
    /\ list_accounts(Store) = <<AccountB>>

\* C15: flush_account on an account that exists sets its counters to zero
\* and removes its container rows and containers: entries, so that
\* list_containers returns an empty page and info_account reports no
\* container, the existence flag, the creation time and the metadata
\* staying; on an account that does not exist it answers NotFound and
\* changes no key
C15_FlushEmpties ==
    [][(op'.kind = "flush_account" /\ op'.target # EmptyStr)
       => LET a == op'.target
          IN  IF a \in accts
              THEN /\ op'.result = "ok"
                   /\ info_account(StoreNext, a)
                        = [objects |-> 0, bytes |-> 0, containers |-> 0,
                           buckets |-> info_account(Store, a).buckets]
                   /\ CtNames(StoreNext, a) = {}
                   /\ AccountKeys(StoreNext, a).cts = {}
                   /\ list_containers(StoreNext, a, MaxLimit, None, None, None,
                                      None, FALSE, ListFuel)
                        = [raw_list |-> <<>>, status |-> "ok"]
                   /\ a \in accts'
                   /\ acct'[<<a, "ctime">>] = acct[<<a, "ctime">>]
                   /\ acct'[<<a, "id">>] = acct[<<a, "id">>]
                   /\ meta' = meta
                   /\ accts' = accts
              ELSE op'.result = "NotFound" /\ StoreVars' = StoreVars]_vars

\* a flush that removed the container of an account holding metadata
C15_Witness ==
    /\ op.kind = "flush_account" /\ op.result = "ok" /\ op.tomb
    /\ AccountKeys(Store, op.target).meta # {}
    /\ CtNames(Store, op.target) = {}
    /\ info_account(Store, op.target).containers = 0

\* the keys of account a in the account:, containers: and container:
\* subspaces
KeysOf(a) ==
    {k \in DOMAIN acct : k[1] = a} \cup {k \in cts : k[1] = a}
        \cup {k \in DOMAIN ct : k[1] = a}

\* C35: whenever delete_account(A) runs among update_container calls that
\* create containers in A, an account without its flag in accounts: has
\* no counter key, no listing entry and no container row, and once the
\* deletion has answered True or False the store is that of one of the
\* two serial orders: A is listed, or no key of A is left
C35_DeleteAmongUpdates ==
    /\ AccountA \notin accts => KeysOf(AccountA) = {}
    /\ (task.kind = "delete_account" /\ task.pc = "done")
         => \/ AccountA \in accts /\ <<AccountA, "id">> \in DOMAIN acct
            \/ KeysOf(AccountA) = {}

\* C40: update_account_metadata on an account that does not exist: with
\* autocreate on, the call creates the account and stores the metadata,
\* which get_account_metadata then returns; with autocreate off it
\* answers not-found and changes nothing; it never ends with another error
C40_MetadataOnMissingAccount ==
    /\ [][(/\ op'.kind = "update_account_metadata"
           /\ op'.target # EmptyStr
           /\ <<op'.target, "id">> \notin DOMAIN acct)
          => /\ op'.result # "Error"
             /\ IF Autocreate
                THEN op'.result = "ok" /\ op'.target \in accts'
                ELSE op'.result = "none" /\ StoreNext = Store]_vars
    /\ [](\A a \in AccountIds \ {EmptyStr}, metadata \in MetaMaps :
            <<a, "id">> \notin DOMAIN acct
            => /\ LET r == update_account_metadata(Store, a, metadata, {}, TRUE)
                  IN  /\ r.result = "ok"
                      /\ get_account_metadata(r.st, a) = metadata
               /\ LET r == update_account_metadata(Store, a, metadata, {}, FALSE)
                  IN  r.result = "none" /\ r.st = Store)

-----------------------------------------------------------------------------
(* Properties of the container rows *)

\* the accounts that have a key in container: or in containers:
RowAccounts == {k[1] : k \in DOMAIN ct} \cup {k[1] : k \in cts}

\* C37: after any serial run of update_container, flush_account,
\* refresh_account and refresh_bucket, every stored container row has its
\* name, mtime, dtime, objects and bytes with dtime < mtime, a container
\* has an entry in the listing index of its account exactly when it has a
\* row, and a container that has just been tombstoned has neither
C37_RowsWellFormed ==
    /\ \A a \in RowAccounts : \A n \in CtNames(Store, a) :
          /\ \A f \in {"name", "mtime", "dtime", "objects", "bytes"} :
                <<a, n, f>> \in DOMAIN ct
          /\ ct[<<a, n, "dtime">>] < ct[<<a, n, "mtime">>]
          /\ <<a, n>> \in cts
    /\ \A k \in cts : RowPresent(Store, k[1], k[2])
    /\ (op.kind = "update_container" /\ op.tomb)
          => /\ op.ev.cname \notin CtNames(Store, op.ev.account)
             /\ <<op.ev.account, op.ev.cname>> \notin cts

\* a refresh has just folded the objects of the shard into the row of
\* container c
C37_Witness ==
    /\ op.kind \in {"refresh_account", "refresh_bucket"}
    /\ op.result = "ok"
    /\ RowPresent(Store, AccountA, CtPlain)
    /\ RowPresent(Store, ShardsA, ShardC0)
    /\ FromBytes(ct[<<ShardsA, ShardC0, "objects">>]) = MaxCount
    /\ FromBytes(ct[<<AccountA, CtPlain, "objects">>]) = MaxCount

-----------------------------------------------------------------------------
(* Properties of the refresh engine *)

\* the shards of logical container c: the rows of .shards_A named
\* c-<hash>-<timestamp>, with or without a trailing -<index>
IsShardOf(name, c) ==
    /\ Len(name) > Len(c) + 1
    /\ StartsWith(name, c)
    /\ name[Len(c) + 1] = Dash
    /\ Cardinality({i \in (Len(c) + 1)..Len(name) : name[i] = Dash}) \in {2, 3}

ShardsOf(c) == {n \in CtNames(Store, ShardsA) : IsShardOf(n, c)}

\* C10: when refresh_bucket(bk) has completed, the row of every container
\* of bucket bk that has shards under .shards_A holds the sum of its
\* shards' object counts (+segments shards left out) and the sum of
\* their byte counts
C10_ShardFold ==
    (op.kind = "refresh_bucket" /\ op.result = "ok")
    => \A c \in LogicalNames :
          (/\ <<AccountA, c, "bucket">> \in DOMAIN ct
           /\ ct[<<AccountA, c, "bucket">>] = op.target
           /\ ShardsOf(c) # {})
          => /\ ct[<<AccountA, c, "objects">>]
                  = LiveTotal(ShardsA,
                              {n \in ShardsOf(c) : ~Contains(n, SegmentsTag)},
                              "objects")
             /\ ct[<<AccountA, c, "bytes">>]
                  = LiveTotal(ShardsA, ShardsOf(c), "bytes")

\* the containers of account a that are registered to bucket bk
BucketMembers(a, bk) ==
    {n \in CtNames(Store, a) :
        /\ <<a, n, "bucket">> \in DOMAIN ct
        /\ ct[<<a, n, "bucket">>] = bk}

\* C11: when refresh_bucket(bk) has completed, with any batch size and
\* whatever the bucket counters held before, the byte counter of bk is the
\* sum of the bytes of the containers of the owning account registered to
\* bk, and its object counter the sum of the objects of those whose name
\* does not contain +segments
C11_RefreshBucketSums ==
    (op.kind = "refresh_bucket" /\ op.result = "ok")
    => LET a == b[<<op.target, "account">>]
           members == BucketMembers(a, op.target)
       IN  /\ b[<<op.target, "bytes">>] = SumField(Store, a, members, "bytes")
           /\ b[<<op.target, "objects">>]
                = SumField(Store, a,
                           {n \in members : ~Contains(n, SegmentsTag)}, "objects")

\* a refresh in batches of one over three counted containers and a
\* +segments container that holds objects
C11_Witness ==
    /\ op.kind = "refresh_bucket" /\ op.result = "ok" /\ op.batch = 1
    /\ BucketMembers(AccountA, BucketBk) = RefreshNames
    /\ \A n \in RefreshNames : ct[<<AccountA, n, "objects">>] = MaxCount
    /\ b[<<BucketBk, "objects">>] = 3 * MaxCount
    /\ b[<<BucketBk, "bytes">>] = 4 * ByteUnit * MaxCount

\* the bucket an update_container event is applied to: the one it names
\* or else the one recorded on the row
EventBucket(ev) ==
    IF ev.bucket # EmptyStr THEN ev.bucket
    ELSE IF <<ev.account, ev.cname, "bucket">> \in DOMAIN ct
    THEN ct[<<ev.account, ev.cname, "bucket">>]
    ELSE EmptyStr

\* the byte delta of the container of ev within bucket bk over the step:
\* the bytes of the row after the step (zero without a row) minus the
\* bytes the row held while it was registered to bk (zero otherwise)
ByteDelta(ev, bk) ==
    LET a == ev.account
        c == ev.cname
        new == IF <<a, c, "bytes">> \in DOMAIN ct' THEN ct'[<<a, c, "bytes">>] ELSE 0
        old == IF /\ <<a, c, "bucket">> \in DOMAIN ct
                  /\ ct[<<a, c, "bucket">>] = bk
               THEN ct[<<a, c, "bytes">>] ELSE 0
    IN  new - old

\* C25: an accepted update_container on a container whose name contains
\* +segments leaves the object counter of the associated bucket at its
\* value (zero if absent) and adds the container's whole byte delta to
\* the byte counter; and when refresh_bucket has completed, the object
\* counter of the bucket leaves the +segments containers out while the
\* byte counter includes them
C25_SegmentsInBucket ==
    /\ [][(/\ op'.kind = "update_container"
           /\ op'.result = "ok"
           /\ Contains(op'.ev.cname, SegmentsTag)
           /\ EventBucket(op'.ev) # EmptyStr)
          => LET bk == EventBucket(op'.ev)
             IN  /\ BucketValue(b', bk, "objects") = BucketValue(b, bk, "objects")
                 /\ BucketValue(b', bk, "bytes")
                      = (BucketValue(b, bk, "bytes") + ByteDelta(op'.ev, bk)) % WordMod]_vars
    /\ []((op.kind = "refresh_bucket" /\ op.result = "ok")
            => /\ b[<<BucketBk, "objects">>]
                    = SumField(Store, AccountA,
                               BucketMembers(AccountA, BucketBk) \ {CtSegments},
                               "objects")
               /\ b[<<BucketBk, "bytes">>]
                    = SumField(Store, AccountA,
                               BucketMembers(AccountA, BucketBk), "bytes"))

\* C26: the object counter of an account is the sum of the object counts
\* of its live containers whose name does not contain +segments, and its
\* byte counter the sum of the bytes of all its live containers, after
\* update_container and after refresh_account alike
C26_SegmentsInAccount ==
    \A a \in accts :
        /\ info_account(Store, a).objects
             = LiveTotal(a, {n \in LiveNames(a) : ~Contains(n, SegmentsTag)},
                         "objects")
        /\ info_account(Store, a).bytes = LiveTotal(a, LiveNames(a), "bytes")

\* C31: every batch of _refresh_sharded_ct and of _refresh_bucket returns
\* None or a marker that sorts after the marker it was given, whatever the
\* store and the batch size, and a refresh_bucket that has started ends
\* after finitely many batches
C31_RefreshTerminates ==
    /\ [](task.last \in {"shard", "bucket"}
            => \/ task.returned = None
               \/ task.given = None
               \/ LexLess(task.given, task.returned))
    /\ (task.pc \in {"shards", "bucket"}) ~> (task.pc = "done")

\* a pass in batches of one over a sharded account has ended: its shard
\* loop was handed a marker and its last bucket batch was given one
C31_Witness ==
    /\ task.kind = "refresh_bucket" /\ task.pc = "done" /\ task.result = "ok"
    /\ task.batch = 1
    /\ ShardsA \in accts
    /\ task.sharded_marker # None
    /\ task.last = "bucket" /\ task.given # None /\ task.returned = None

\* C33: when one refresh_account of account A and an accepted
\* update_container on a container of A have both committed, in whatever
\* order their transactions ran, the byte and object counters of A are the
\* sums of the bytes and objects of its container rows
C33_RefreshAccountAmongUpdates ==
    (/\ task.kind = "refresh_account" /\ task.pc = "done" /\ task.result = "ok"
     /\ op.kind = "update_container" /\ op.result = "ok")
    => /\ acct[<<AccountA, "bytes">>]
            = SumField(Store, AccountA, CtNames(Store, AccountA), "bytes")
       /\ acct[<<AccountA, "objects">>]
            = SumField(Store, AccountA, CtNames(Store, AccountA), "objects")

\* C34: when an accepted update_container for a container of bucket bk has
\* committed between two batches of a refresh_bucket(bk) pass, then once
\* the pass has ended the byte counter of bk is the sum of the bytes of
\* its member containers and its object counter the sum of their objects
C34_RefreshAmongUpdates ==
    (/\ task.kind = "refresh_bucket" /\ task.pc = "done" /\ task.result = "ok"
     /\ op.kind = "update_container" /\ op.result = "ok")
    => /\ b[<<BucketBk, "bytes">>]
            = SumField(Store, AccountA, BucketMembers(AccountA, BucketBk), "bytes")
       /\ b[<<BucketBk, "objects">>]
            = SumField(Store, AccountA, BucketMembers(AccountA, BucketBk), "objects")

\* C19: refresh_bucket on a bucket that has no owner key is answered
\* NotFound and changes no key
C19_MissingBucketNotFound ==
    [][(op'.kind = "refresh_bucket" /\ <<op'.target, "account">> \notin DOMAIN b)
       => (op'.result = "NotFound" /\ StoreVars' = StoreVars)]_vars

-----------------------------------------------------------------------------
(* Properties of the listing engine *)

\* the names of a sequence of entries
EntryNames(entries) == [i \in 1..Len(entries) |-> entries[i].name]

\* '' for no prefix
PrefixOf(p) == IF p = None THEN EmptyStr ELSE p

\* the live containers of account A whose name starts with prefix p
Matching(p) == {n \in LiveNames(AccountA) : StartsWith(n, PrefixOf(p))}

\* C7: when a client has paged through list_containers up to the empty
\* page, each call taking as marker the name of the last entry of the page
\* before, the names it has received are the live containers that start
\* with the prefix, in ascending order, each one once
C7_PaginationComplete ==
    (listing.kind = "pages" /\ listing.done)
    => /\ listing.status = "ok"
       /\ EntryNames(listing.entries) = SortNames(Matching(listing.prefix))

\* what stands for container n in a listing with delimiter d: the name up
\* to and including the first d at or after the prefix, or the name itself
GroupKey(n, p, d) ==
    LET i == Find(n, d, Len(PrefixOf(p)))
    IN  IF i >= 0 THEN Prefix(n, i + 1) ELSE n

\* the listing with delimiter d: one entry per distinct group or name
Grouped(p, d) == SortNames({GroupKey(n, p, d) : n \in Matching(p)})

\* C8: a listing with delimiter "/" whose limit is larger than the number
\* of results holds, in ascending order, one prefix-group entry (counts
\* zero, flag set) per distinct group and one ordinary entry per name
\* without delimiter after the prefix, no group twice
C8_DelimiterGrouping ==
    (/\ listing.kind = "delimited"
     /\ listing.limit > Len(Grouped(listing.prefix, Slash)))
    => /\ listing.status = "ok"
       /\ EntryNames(listing.entries) = Grouped(listing.prefix, Slash)
       /\ \A i \in 1..Len(listing.entries) :
             LET e == listing.entries[i]
             IN  IF e.name \in Matching(listing.prefix)
                 THEN e.prefix = 0
                 ELSE e.prefix = 1 /\ e.objects = 0 /\ e.bytes = 0

\* the operations that only read
ReadKinds ==
    {"list_containers", "list_buckets", "list_accounts", "info_account",
     "get_bucket_info", "status"}

C17_EmptyListing ==
    (listing.kind \in {"buckets", "raw"} /\ listing.entries = <<>>)
    => listing.status = "ok" /\ listing.marker = None

\* the entries all start with prefix, come strictly after marker and
\* strictly before end_marker
InBounds(entries, prefix, marker, end_marker) ==
    \A i \in 1..Len(entries) :
        /\ StartsWith(entries[i].name, PrefixOf(prefix))
        /\ Truthy(marker) => LexLess(marker, entries[i].name)
        /\ Truthy(end_marker) => LexLess(entries[i].name, end_marker)

\* C28: for every combination of limit, prefix, marker and end_marker,
\* prefix and end_marker together included, list_buckets and
\* list_containers return a page, and every entry of the page has a name
\* that starts with prefix, is strictly greater than marker and strictly
\* less than end_marker
C28_ListingBounds ==
    \A limit \in ReadLimits, prefix \in ReadPrefixes,
       marker \in ReadMarkers, end_marker \in ReadEndMarkers :
        /\ list_buckets(Store, AccountA, limit, marker, end_marker,
                        prefix, ListFuel).status = "ok"
        /\ InBounds(list_buckets(Store, AccountA, limit, marker, end_marker,
                                 prefix, ListFuel).output,
                    prefix, marker, end_marker)
        /\ _raw_listing(Store, AccountA, limit, prefix, marker, end_marker,
                        None, FALSE, ListFuel).status = "ok"
        /\ InBounds(_raw_listing(Store, AccountA, limit, prefix, marker,
                                 end_marker, None, FALSE, ListFuel).results,
                    prefix, marker, end_marker)

\* the buckets listed for account A that match the arguments of a call
MatchingBuckets(prefix, marker, end_marker) ==
    {k[2] : k \in {x \in bs :
        /\ Len(x) = 2 /\ x[1] = AccountA
        /\ StartsWith(x[2], PrefixOf(prefix))
        /\ Truthy(marker) => LexLess(marker, x[2])
        /\ Truthy(end_marker) => LexLess(x[2], end_marker)}}

\* those of them that come after the page
RemainingBuckets(page, prefix, marker, end_marker) ==
    {n \in MatchingBuckets(prefix, marker, end_marker) :
        page # <<>> => LexLess(page[Len(page)].name, n)}

\* some names that have name n as a prefix: n followed by "a", by "z"
Children(n) == {n \o <<97>>, n \o <<122>>}

\* what C29 asks of the page and the next marker of one call
NextMarkerRule(page, next_marker, prefix, marker, end_marker) ==
    IF RemainingBuckets(page, prefix, marker, end_marker) = {}
    THEN next_marker = None
    ELSE IF Truthy(end_marker) THEN next_marker = end_marker
    ELSE /\ next_marker # None
         /\ page # <<>>
         /\ LexLess(page[Len(page)].name, next_marker)
         /\ \A n \in Children(page[Len(page)].name) : LexLess(n, next_marker)

\* C29: the next marker that list_buckets returns with a page is null when
\* no bucket matching the arguments remains after the page; otherwise it
\* is end_marker when one was given, or else a value that sorts after the
\* last returned name and after every name that has that name as a prefix
C29_NextMarker ==
    \A limit \in ReadLimits, prefix \in ReadPrefixes,
       marker \in ReadMarkers, end_marker \in ReadEndMarkers :
        list_buckets(Store, AccountA, limit, marker, end_marker,
                     prefix, ListFuel).status = "ok"
        => NextMarkerRule(
              list_buckets(Store, AccountA, limit, marker, end_marker,
                           prefix, ListFuel).output,
              list_buckets(Store, AccountA, limit, marker, end_marker,
                           prefix, ListFuel).next_marker,
              prefix, marker, end_marker)

\* the buckets registered for account A whose name starts with prefix p
RegisteredBuckets(p) ==
    {k[2] : k \in {x \in bs : /\ Len(x) = 2 /\ x[1] = AccountA
                              /\ StartsWith(x[2], PrefixOf(p))}}

\* C36: when a client has paged through list_buckets, each call taking the
\* next marker of the call before, up to a null marker or an empty page,
\* the names it has received are the registered buckets that start with
\* the prefix, in ascending order, each one once, a bucket whose name
\* extends a name already returned included
C36_BucketPagesComplete ==
    (listing.kind = "bucket_pages" /\ listing.done)
    => /\ listing.status = "ok"
       /\ EntryNames(listing.entries)
            = SortNames(RegisteredBuckets(listing.prefix))

\* C18: a call of update_container whose transaction keeps conflicting with
\* concurrently committed transactions is retried a bounded number of times
\* and then ends with ServiceBusy, so every call in flight ends; and a store
\* error that leaves the transaction reaches the caller as ServiceBusy
C18_BoundedRetries ==
    /\ InFlight ~> ~InFlight
    /\ [](op.status = "fdb_error" => op.result = "ServiceBusy")

====
